---- MODULE Spec2Model ----
(***************************************************************************)
(* Verification model of the MCP Swift SDK protocol-coverage tools:        *)
(*   verification/scripts/sync-manifest.py            (synchronizer)      *)
(*   verification/scripts/verify-protocol-coverage.py (reconciliation)    *)
(*   verification/scripts/utils/reset-verification.py (reset utility)     *)
(*   verification/scripts/lib/spec_extraction.py      (schema facts)      *)
(*                                                                         *)
(* Strings are TLA+ strings; a character is a string of length 1.  A       *)
(* Python dict / YAML mapping is a function with string keys (a record),   *)
(* an absent key is a key outside its DOMAIN; a Python list is a sequence. *)
(* The empty dict and the empty list are both <<>>.                        *)
(***************************************************************************)
EXTENDS Integers, Sequences, FiniteSets, TLC

(***************************************************************************)
(* Python dict primitives                                                  *)
(***************************************************************************)
Has(d, k) == k \in DOMAIN d

Get(d, k, default) == IF k \in DOMAIN d THEN d[k] ELSE default

Put(d, k, v) == (k :> v) @@ d

SetDefault(d, k, v) == IF k \in DOMAIN d THEN d ELSE Put(d, k, v)

\* Python truthiness of d.get(k) for string values: present and non-empty.
Truthy(d, k) == k \in DOMAIN d /\ d[k] # ""

Range(s) == {s[i] : i \in DOMAIN s}

(***************************************************************************)
(* Python str primitives                                                   *)
(***************************************************************************)
Char(s, i) == SubSeq(s, i, i)

\* Code-point order of the characters the model's strings are written in.
CodeOrder == " -./0123456789:ABCDEFGHIJKLMNOPQRSTUVWXYZ[]_abcdefghijklmnopqrstuvwxyz"

UpperCase == "ABCDEFGHIJKLMNOPQRSTUVWXYZ"

LowerCase == "abcdefghijklmnopqrstuvwxyz"

\* The characters of a string, and each one's (first) offset in it.
CharsOf(alphabet) == {Char(alphabet, i) : i \in 1..Len(alphabet)}

OffsetsIn(alphabet) ==
    [c \in CharsOf(alphabet) |-> CHOOSE i \in 1..Len(alphabet) : Char(alphabet, i) = c]

CodeOffsets == OffsetsIn(CodeOrder)

UpperOffsets == OffsetsIn(UpperCase)

LowerOffsets == OffsetsIn(LowerCase)

Ord(c) == IF c \in DOMAIN CodeOffsets THEN CodeOffsets[c] ELSE 0

IsUpper(c) == c \in DOMAIN UpperOffsets

IsLower(c) == c \in DOMAIN LowerOffsets

IsAlpha(c) == IsUpper(c) \/ IsLower(c)

Upper(c) == IF IsLower(c) THEN Char(UpperCase, LowerOffsets[c]) ELSE c

Lower(c) == IF IsUpper(c) THEN Char(LowerCase, UpperOffsets[c]) ELSE c

StartsWith(s, p) == Len(p) <= Len(s) /\ SubSeq(s, 1, Len(p)) = p

EndsWith(s, p) == Len(p) <= Len(s) /\ SubSeq(s, Len(s) - Len(p) + 1, Len(s)) = p

\* p in s
Contains(s, p) == \E i \in 1..(Len(s) - Len(p) + 1) : SubSeq(s, i, i + Len(p) - 1) = p

\* "".join(parts[lo..hi])
RECURSIVE JoinRange(_, _, _)
JoinRange(parts, lo, hi) ==
    IF lo > hi THEN ""
    ELSE IF lo = hi THEN parts[lo]
    ELSE LET mid == (lo + hi) \div 2
         IN JoinRange(parts, lo, mid) \o JoinRange(parts, mid + 1, hi)

Join(parts) == JoinRange(parts, 1, Len(parts))

\* s.lower()
LowerStr(s) == Join([i \in 1..Len(s) |-> Lower(Char(s, i))])

\* s.find(p) as a 1-based index, 0 when p does not occur.
Find(s, p) ==
    LET hits == {i \in 1..(Len(s) - Len(p) + 1) : SubSeq(s, i, i + Len(p) - 1) = p}
    IN IF hits = {} THEN 0 ELSE CHOOSE i \in hits : \A j \in hits : i <= j

\* s.replace(old, new), old non-empty: leftmost non-overlapping occurrences.
RECURSIVE Replace(_, _, _)
Replace(s, old, new) ==
    LET i == Find(s, old)
    IN IF i = 0 THEN s
       ELSE SubSeq(s, 1, i - 1) \o new \o Replace(SubSeq(s, i + Len(old), Len(s)), old, new)

\* s.split(sep) for a one-character separator: always at least one part.
RECURSIVE Split(_, _)
Split(s, sep) ==
    LET i == Find(s, sep)
    IN IF i = 0 THEN <<s>>
       ELSE <<SubSeq(s, 1, i - 1)>> \o Split(SubSeq(s, i + 1, Len(s)), sep)

\* s.title(): a letter that follows a letter is lowered, any other letter raised.
Title(s) ==
    Join([i \in 1..Len(s) |->
            IF i > 1 /\ IsAlpha(Char(s, i - 1)) THEN Lower(Char(s, i)) ELSE Upper(Char(s, i))])

\* s.rstrip(chars) and s.strip(chars), chars given as a string.
RECURSIVE RStrip(_, _)
RStrip(s, chars) ==
    IF s # "" /\ Contains(chars, Char(s, Len(s)))
    THEN RStrip(SubSeq(s, 1, Len(s) - 1), chars)
    ELSE s

RECURSIVE LStrip(_, _)
LStrip(s, chars) ==
    IF s # "" /\ Contains(chars, Char(s, 1))
    THEN LStrip(SubSeq(s, 2, Len(s)), chars)
    ELSE s

Strip(s, chars) == RStrip(LStrip(s, chars), chars)

\* a < b in Python's string order (code points, then length).
RECURSIVE StrLess(_, _)
StrLess(a, b) ==
    IF a = "" THEN b # ""
    ELSE IF b = "" THEN FALSE
    ELSE IF Char(a, 1) = Char(b, 1)
         THEN StrLess(SubSeq(a, 2, Len(a)), SubSeq(b, 2, Len(b)))
         ELSE Ord(Char(a, 1)) < Ord(Char(b, 1))

\* sorted(S) for a set of strings.
Sorted(S) ==
    LET rank == [x \in S |-> Cardinality({y \in S : StrLess(y, x)})]
    IN [i \in 1..Cardinality(S) |-> CHOOSE x \in S : rank[x] = i - 1]

\* sorted(list) for a list of strings: duplicates are kept.
RECURSIVE SortedList(_)
SortedList(xs) ==
    IF xs = <<>> THEN <<>>
    ELSE LET i == CHOOSE j \in 1..Len(xs) :
                    \A k \in 1..Len(xs) : xs[k] = xs[j] \/ StrLess(xs[j], xs[k])
         IN <<xs[i]>> \o SortedList(SubSeq(xs, 1, i - 1) \o SubSeq(xs, i + 1, Len(xs)))

\* The orders in which Python may iterate a set (hash order is not fixed
\* between processes): every sequence listing each element exactly once.
IterationOrders(S) ==
    {f \in [1..Cardinality(S) -> S] : \A x \in S : \E i \in DOMAIN f : f[i] = x}

\* int(text) for an optional '-' followed by decimal digits.
Digits == "0123456789"

DigitOffsets == OffsetsIn(Digits)

RECURSIVE ParseNat(_)
ParseNat(s) ==
    IF s = "" THEN 0
    ELSE 10 * ParseNat(SubSeq(s, 1, Len(s) - 1)) + (DigitOffsets[Char(s, Len(s))] - 1)

ParseInt(s) == IF StartsWith(s, "-") THEN 0 - ParseNat(SubSeq(s, 2, Len(s))) ELSE ParseNat(s)

\* Length of the longest prefix of s made of characters of `chars`.
RECURSIVE SpanLen(_, _)
SpanLen(s, chars) ==
    IF s # "" /\ Contains(chars, Char(s, 1))
    THEN 1 + SpanLen(SubSeq(s, 2, Len(s)), chars)
    ELSE 0

Drop(s, n) == SubSeq(s, n + 1, Len(s))

\* s without its longest prefix made of characters of `chars`.
Skip(s, chars) == Drop(s, SpanLen(s, chars))

\* The least element of a set of offsets, 0 for the empty set: where a
\* leftmost match starts.
Leftmost(S) == IF S = {} THEN 0 ELSE CHOOSE i \in S : \A j \in S : i <= j

\* The dict left by d[key] = value for each <<key, value>> in order: the last
\* assignment to a key stays.
DictOf(pairs) ==
    [key \in {pairs[i][1] : i \in DOMAIN pairs} |->
       pairs[CHOOSE i \in DOMAIN pairs :
               pairs[i][1] = key /\ \A j \in DOMAIN pairs : pairs[j][1] = key => j <= i][2]]

(***************************************************************************)
(* lib/spec_extraction.py                                                  *)
(*                                                                         *)
(* The schema document is schema["$defs"][name] = definition, a definition *)
(* being a dict with the optional keys description, enum, properties and   *)
(* anyOf.  None is written "": every consumer of an optional string only   *)
(* tests its truthiness, and None and "" are both false.                   *)
(***************************************************************************)
None == ""

SchemaDefs(schema) == Get(schema, "$defs", <<>>)

method_suffixes ==
    <<"Request", "RequestParams", "Response", "Result", "Notification", "NotificationParams">>

IsDeprecatedText(desc) ==
    Contains(LowerStr(desc), "will be removed") \/ Contains(LowerStr(desc), "deprecated")

\* An extraction that filters by name only.
extract_types_by_name(schema) ==
    {name \in DOMAIN SchemaDefs(schema) :
        /\ ~ \E i \in DOMAIN method_suffixes : EndsWith(name, method_suffixes[i])
        /\ ~ (Contains(name, "Request") /\ EndsWith(name, "Params"))}

extract_types(schema) ==
    LET defs == SchemaDefs(schema)
    IN {name \in DOMAIN defs :
          /\ ~ \E i \in DOMAIN method_suffixes : EndsWith(name, method_suffixes[i])
          /\ ~ (Contains(name, "Request") /\ EndsWith(name, "Params"))
          /\ ~ IsDeprecatedText(Get(defs[name], "description", ""))}

extract_enums(schema) ==
    LET defs == SchemaDefs(schema)
    IN [name \in {n \in DOMAIN defs : Has(defs[n], "enum")} |-> SortedList(defs[name]["enum"])]

\* One match of  export\s+const\s+([A-Z_]+)\s*=\s*(-\d+);  at the start of s:
\* <<name, code>>, or <<>> when the pattern does not match there.  Each step
\* takes the text left to match.
MatchErrorConst(s) ==
    LET Code(name, h) ==
            LET k == SpanLen(Drop(h, 1), Digits)
            IN IF ~StartsWith(h, "-") \/ k = 0 \/ ~StartsWith(Drop(h, 1 + k), ";") THEN <<>>
               ELSE <<name, ParseInt(SubSeq(h, 1, 1 + k))>>
        Equals(name, f) ==
            IF ~StartsWith(f, "=") THEN <<>> ELSE Code(name, Skip(Drop(f, 1), " "))
        Name(d) ==
            LET n == SpanLen(d, UpperCase \o "_")
            IN IF n = 0 THEN <<>> ELSE Equals(SubSeq(d, 1, n), Skip(Drop(d, n), " "))
        Const(a) ==
            LET b == Skip(a, " ")
            IN IF SpanLen(a, " ") = 0 \/ ~StartsWith(b, "const") \/ SpanLen(Drop(b, 5), " ") = 0
               THEN <<>>
               ELSE Name(Skip(Drop(b, 5), " "))
    IN IF ~StartsWith(s, "export") THEN <<>> ELSE Const(Drop(s, 6))

\* re.finditer over the text of schema.ts, given as its lines: the matches
\* in order, the leftmost one of each line.
RECURSIVE ErrorConstMatches(_)
ErrorConstMatches(lines) ==
    LET MatchAt(line, i) == IF i = 0 THEN <<>> ELSE <<MatchErrorConst(Drop(line, i - 1))>>
        InLine(line) ==
            MatchAt(line, Leftmost({i \in 1..Len(line) : MatchErrorConst(Drop(line, i - 1)) # <<>>}))
    IN IF lines = <<>> THEN <<>>
       ELSE InLine(Head(lines)) \o ErrorConstMatches(Tail(lines))

\* schema_ts is [exists |-> BOOLEAN, lines |-> the text of schema.ts]; the
\* result maps each matched name to the code of its last match.
extract_error_codes(schema_ts) ==
    IF ~schema_ts.exists THEN <<>> ELSE DictOf(ErrorConstMatches(schema_ts.lines))

extract_capabilities(schema, cap_type) ==
    LET cap_def == Get(SchemaDefs(schema), cap_type, <<>>)
        props   == Get(cap_def, "properties", <<>>)
    IN [prop_name \in DOMAIN props |->
          LET nestedDefs == Get(props[prop_name], "properties", <<>>)
          IN [nested_name \in {n \in DOMAIN nestedDefs :
                                  Get(nestedDefs[n], "type", None) \in {"boolean", "string", "integer"}}
                |-> nestedDefs[nested_name]["type"]]]

extract_deprecated(schema) ==
    LET defs == SchemaDefs(schema)
    IN [name \in {n \in DOMAIN defs :
                    LET desc == Get(defs[n], "description", "")
                    IN Contains(LowerStr(desc), "deprecated")
                       \/ Contains(LowerStr(desc), "will be removed")}
          |-> defs[name]["description"]]

Last(xs) == xs[Len(xs)]

\* A list comprehension with a filter, over the $ref entries of a union.
RECURSIVE RefNames(_)
RefNames(refs) ==
    IF refs = <<>> THEN <<>>
    ELSE (IF Has(Head(refs), "$ref") THEN <<Last(Split(Head(refs)["$ref"], "/"))>> ELSE <<>>)
         \o RefNames(Tail(refs))

get_requests_from_union(schema, union_type) ==
    RefNames(Get(Get(SchemaDefs(schema), union_type, <<>>), "anyOf", <<>>))

extract_method_name(schema, request_type) ==
    LET defn        == Get(SchemaDefs(schema), request_type, <<>>)
        props       == Get(defn, "properties", <<>>)
        method_prop == Get(props, "method", <<>>)
    IN Get(method_prop, "const", None)

\* <<methods, notifications>>
extract_methods_and_notifications(schema) ==
    LET named(unions) ==
          {extract_method_name(schema, t) :
              t \in UNION {Range(get_requests_from_union(schema, u)) : u \in unions}} \ {None}
    IN <<named({"ClientRequest", "ServerRequest"}),
         named({"ClientNotification", "ServerNotification"})>>

(***************************************************************************)
(* sync-manifest.py: Swift type discovery                                  *)
(*                                                                         *)
(* The extractor tool is [status |-> "ok" | "timeout" | "missing",         *)
(* stdout |-> its output lines "name:kind:file:line"].  The index          *)
(* swift_types is a dict in insertion order: [order |-> its keys in order, *)
(* info |-> key -> {kind, file}].                                          *)
(***************************************************************************)
EmptyIndex == [order |-> <<>>, info |-> <<>>]

RECURSIVE ParseTypeLines(_, _)
ParseTypeLines(lines, types) ==
    IF lines = <<>> THEN types
    ELSE LET line  == Strip(Head(lines), " ")
             parts == Split(line, ":")
             skip  == \/ line = ""
                      \/ ~Contains(line, ":")
                      \/ Len(parts) < 4
                      \/ parts[2] = "case"
                      \/ Contains(parts[1], ".CodingKeys")
         IN ParseTypeLines(Tail(lines),
               IF skip THEN types
               ELSE [order |-> IF Has(types.info, parts[1]) THEN types.order
                               ELSE Append(types.order, parts[1]),
                     info  |-> Put(types.info, parts[1], [kind |-> parts[2], file |-> parts[3]])])

\* tool = [dir |-> whether extractors/swift is a directory, status |-> "ok",
\* "timeout" or "missing" (the swift executable is not installed), stdout |->
\* the lines it printed].  A missing working directory and a missing
\* executable both raise FileNotFoundError, which is caught with the timeout.
extract_swift_types(tool) ==
    IF ~tool.dir \/ tool.status # "ok" THEN EmptyIndex
    ELSE ParseTypeLines(tool.stdout, EmptyIndex)

\* The body of the loop of build_spec_to_swift_mapping for one Swift type:
\* each assignment overwrites what an earlier type put under the same key.
MappingStep(mapping, swift_name) ==
    LET m1 == Put(mapping, swift_name, swift_name)
        m2 == IF Contains(swift_name, ".")
              THEN Put(m1, Replace(swift_name, ".", ""), swift_name) ELSE m1
        m3 == IF ~StartsWith(swift_name, "JSONRPC") /\ ~Contains(swift_name, ".")
              THEN Put(m2, "JSONRPC" \o swift_name, swift_name) ELSE m2
        m4 == IF StartsWith(swift_name, "MCP") /\ Len(swift_name) > 3
              THEN Put(m3, Drop(swift_name, 3), swift_name) ELSE m3
    IN m4

RECURSIVE MappingFold(_, _)
MappingFold(names, mapping) ==
    IF names = <<>> THEN mapping
    ELSE MappingFold(Tail(names), MappingStep(mapping, Head(names)))

build_spec_to_swift_mapping(swift_types) == MappingFold(swift_types.order, <<>>)

\* <<swift_name, file>>, <<None, None>> when nothing matches.
find_swift_type(spec_name, spec_to_swift, swift_types) ==
    IF Has(spec_to_swift, spec_name)
    THEN LET swift_name == spec_to_swift[spec_name]
         IN <<swift_name, Get(Get(swift_types.info, swift_name, <<>>), "file", None)>>
    ELSE LET splits == {i \in 1..(Len(spec_name) - 1) :
                          /\ IsUpper(Char(spec_name, i + 1))
                          /\ Has(swift_types.info,
                                 SubSeq(spec_name, 1, i) \o "." \o Drop(spec_name, i))}
         IN IF splits = {} THEN <<None, None>>
            ELSE LET i      == CHOOSE k \in splits : \A j \in splits : j <= k
                     nested == SubSeq(spec_name, 1, i) \o "." \o Drop(spec_name, i)
                 IN <<nested, Get(swift_types.info[nested], "file", None)>>

(***************************************************************************)
(* sync-manifest.py: name derivation                                       *)
(***************************************************************************)
SWIFT_METHOD_MAPPINGS ==
    [m \in {"sampling/createMessage", "elicitation/create", "roots/list",
            "logging/setLevel", "completion/complete", "resources/templates/list",
            "tasks/get", "tasks/list", "tasks/cancel", "tasks/result"} |->
       CASE m = "sampling/createMessage"   -> "requestSampling"
         [] m = "elicitation/create"       -> "requestElicitation"
         [] m = "roots/list"               -> "listRoots"
         [] m = "logging/setLevel"         -> "setLoggingLevel"
         [] m = "completion/complete"      -> "complete"
         [] m = "resources/templates/list" -> "listResourceTemplates"
         [] m = "tasks/get"                -> "getTask"
         [] m = "tasks/list"               -> "listTasks"
         [] m = "tasks/cancel"             -> "cancelTask"
         [] m = "tasks/result"             -> "getTaskResult"]

\* The structural rule of to_swift_method_name (everything after the table).
StructuralMethodName(method) ==
    LET parts == Split(method, "/")
    IN IF Len(parts) # 2 THEN method
       ELSE LET category == parts[1]
                action   == parts[2]
                singular == IF EndsWith(category, "s") THEN RStrip(category, "s") ELSE category
            IN CASE action = "list" -> "list" \o Title(category)
                 [] action \in {"get", "read", "call"} -> action \o Title(singular)
                 [] action = "subscribe" -> "subscribeTo" \o Title(singular)
                 [] action = "unsubscribe" -> "unsubscribeFrom" \o Title(singular)
                 [] OTHER -> action \o Title(singular)

\* A derivation that applies the structural rule without looking at the table.
to_swift_method_name_structural(method) == StructuralMethodName(method)

to_swift_method_name(method) ==
    IF Has(SWIFT_METHOD_MAPPINGS, method) THEN SWIFT_METHOD_MAPPINGS[method]
    ELSE StructuralMethodName(method)

get_method_direction(method_name, client_requests, server_requests, all_request_types) ==
    LET req_type == Get(all_request_types, method_name, None)
    IN IF req_type = None THEN "unknown"
       ELSE CASE req_type \in client_requests /\ req_type \in server_requests -> "bidirectional"
              [] req_type \in client_requests /\ req_type \notin server_requests -> "client_to_server"
              [] req_type \notin client_requests /\ req_type \in server_requests -> "server_to_client"
              [] OTHER -> "unknown"

\* What category[0] raises on an empty category.
IndexError == "IndexError: string index out of range"

to_client_handler_name(method) ==
    LET category == Split(method, "/")[1]
    IN IF category = "" THEN IndexError
       ELSE "with" \o Upper(Char(category, 1)) \o Drop(category, 1) \o "Handler"

to_send_method_name(notification_type) ==
    LET base0 == Replace(notification_type, "Notification", "")
        base  == IF base0 # "" THEN Lower(Char(base0, 1)) \o Drop(base0, 1) ELSE base0
    IN IF base # "" THEN "send" \o Upper(Char(base, 1)) \o Drop(base, 1) ELSE "send"

get_notification_direction(notif_type, client_notifications, server_notifications) ==
    CASE notif_type \in client_notifications /\ notif_type \in server_notifications -> "bidirectional"
      [] notif_type \in client_notifications /\ notif_type \notin server_notifications -> "client_to_server"
      [] notif_type \notin client_notifications /\ notif_type \in server_notifications -> "server_to_client"
      [] OTHER -> "unknown"

\* A dict filled by  d[key(x)] = x  over `order`: each key keeps its last x.
LastWith(order, key(_), k) ==
    order[CHOOSE i \in DOMAIN order :
             key(order[i]) = k /\ \A j \in DOMAIN order : key(order[j]) = k => j <= i]

\* `order` is the order in which this process iterates the set
\* client_notifications | server_notifications.
load_spec_notifications(schema, order) ==
    LET client_notifications == Range(get_requests_from_union(schema, "ClientNotification"))
        server_notifications == Range(get_requests_from_union(schema, "ServerNotification"))
        name(t) == extract_method_name(schema, t)
        names   == {name(order[i]) : i \in DOMAIN order} \ {None}
    IN [method_name \in names |->
          LET notif_type == LastWith(order, name, method_name)
          IN [notification_type |-> notif_type,
              direction |-> get_notification_direction(notif_type, client_notifications,
                                                       server_notifications),
              send_method |-> to_send_method_name(notif_type)]]

\* `order` is the order in which this process iterates the set
\* client_requests | server_requests.
load_spec_methods(schema, order) ==
    LET client_requests == Range(get_requests_from_union(schema, "ClientRequest"))
        server_requests == Range(get_requests_from_union(schema, "ServerRequest"))
        name(t) == extract_method_name(schema, t)
        names   == {name(order[i]) : i \in DOMAIN order} \ {None}
        all_request_types == [method_name \in names |-> LastWith(order, name, method_name)]
    IN [method_name \in names |->
          [request_type |-> all_request_types[method_name],
           direction |-> get_method_direction(method_name, client_requests, server_requests,
                                              all_request_types),
           swift_method |-> to_swift_method_name(method_name),
           client_handler |-> to_client_handler_name(method_name)]]

get_module_id_from_method(method_name) ==
    LET category == Split(method_name, "/")[1]
    IN IF category = "completion" THEN "completions" ELSE category

get_module_id_from_notification(notif_name) ==
    LET parts == Split(notif_name, "/")
    IN IF Len(parts) >= 2
       THEN LET category == parts[2]
            IN CASE category = "initialized" -> "lifecycle"
                 [] category \in {"resources", "prompts", "tools", "roots", "tasks"} -> category
                 [] category = "message" -> "logging"
                 [] category = "elicitation" -> "elicitation"
                 [] OTHER -> category
       ELSE "unknown"

(***************************************************************************)
(* sync-manifest.py: the sync passes.  Each pass takes the manifest        *)
(* document and returns [m |-> the document afterwards, n |-> its count of *)
(* changes]; a loop is a fold over the keys in the order the code visits   *)
(* them.                                                                   *)
(***************************************************************************)
PendingBlock(notes) == [status |-> "pending", notes |-> notes]

\* Index of the first module with this id, 0 when there is none.
FindModule(manifest, module_id) ==
    LET mods == Get(manifest, "modules", <<>>)
        hits == {i \in DOMAIN mods : Get(mods[i], "id", None) = module_id}
    IN IF hits = {} THEN 0 ELSE CHOOSE i \in hits : \A j \in hits : i <= j

NewModule(module_id) ==
    [id |-> module_id,
     category |-> "feature",
     description |-> "Auto-generated module for " \o module_id,
     swift_file |-> "Sources/MCP/TODO/" \o Title(module_id) \o ".swift",
     methods |-> <<>>,
     notifications |-> <<>>,
     verification |-> PendingBlock("Auto-added by sync")]

\* [m |-> manifest afterwards, i |-> index of the module in m.modules; 0 for
\* the module a dry run builds without attaching it to the document].
\* A synchronizer that never looks for the module and always makes a new one.
find_or_create_module_fresh(manifest, module_id, dry_run) ==
    IF dry_run THEN [m |-> manifest, i |-> 0]
    ELSE LET mods == Get(manifest, "modules", <<>>)
         IN [m |-> Put(manifest, "modules", Append(mods, NewModule(module_id))),
             i |-> Len(mods) + 1]

find_or_create_module(manifest, module_id, dry_run) ==
    LET i == FindModule(manifest, module_id)
    IN IF i # 0 THEN [m |-> manifest, i |-> i]
       ELSE IF dry_run THEN [m |-> manifest, i |-> 0]
       ELSE LET mods == Get(manifest, "modules", <<>>)
            IN [m |-> Put(manifest, "modules", Append(mods, NewModule(module_id))),
                i |-> Len(mods) + 1]

\* <<i, j>>: modules[i][listKey][j] is the first entry named `name`; <<0, 0>> if none.
FindInModules(manifest, listKey, name) ==
    LET mods == Get(manifest, "modules", <<>>)
        hits == {p \in UNION {{<<i, j>> : j \in DOMAIN Get(mods[i], listKey, <<>>)} : i \in DOMAIN mods} :
                   Get(mods[p[1]][listKey][p[2]], "name", None) = name}
    IN IF hits = {} THEN <<0, 0>>
       ELSE CHOOSE p \in hits :
              \A q \in hits : p[1] < q[1] \/ (p[1] = q[1] /\ p[2] <= q[2])

find_method_in_manifest(manifest, method_name) == FindInModules(manifest, "methods", method_name)

find_notification_in_manifest(manifest, notif_name) ==
    FindInModules(manifest, "notifications", notif_name)

\* A synchronizer that reports an addition to a module without making it.
AppendToModuleSkipped(manifest, i, listKey, entry) == manifest

\* module.setdefault(listKey, []).append(entry) on modules[i]
AppendToModule(manifest, i, listKey, entry) ==
    LET mods == manifest["modules"]
        mod  == mods[i]
    IN Put(manifest, "modules",
           [mods EXCEPT ![i] = Put(mod, listKey, Append(Get(mod, listKey, <<>>), entry))])

\* A synchronizer that rebuilds the entry around the field it fills in,
\* keeping only its name.
SetEntryFieldRebuilt(manifest, listKey, p, field, value) ==
    LET mods == manifest["modules"]
        mod  == mods[p[1]]
        lst  == mod[listKey]
    IN Put(manifest, "modules",
           [mods EXCEPT ![p[1]] =
              Put(mod, listKey, [lst EXCEPT ![p[2]] = (field :> value) @@ [name |-> lst[p[2]]["name"]]])])

\* entry[field] = value on modules[p[1]][listKey][p[2]]
SetEntryField(manifest, listKey, p, field, value) ==
    LET mods == manifest["modules"]
        mod  == mods[p[1]]
        lst  == mod[listKey]
    IN Put(manifest, "modules",
           [mods EXCEPT ![p[1]] = Put(mod, listKey, [lst EXCEPT ![p[2]] = Put(lst[p[2]], field, value)])])

\* A synchronizer that gives every new method the handler hook, whatever
\* its direction.
new_method_with_handler(method_name, spec_info) ==
    [name |-> method_name,
     swift |-> Replace(spec_info.request_type, "Request", ""),
     verification |-> PendingBlock("Auto-added by sync"),
     client_method |-> spec_info.swift_method,
     client_handler |-> spec_info.client_handler]

new_method(method_name, spec_info) ==
    LET direction == spec_info.direction
        e0 == [name |-> method_name,
               swift |-> Replace(spec_info.request_type, "Request", ""),
               verification |-> PendingBlock("Auto-added by sync")]
        e1 == IF direction \in {"client_to_server", "bidirectional"}
              THEN Put(e0, "client_method", spec_info.swift_method) ELSE e0
        e2 == IF direction \in {"server_to_client", "bidirectional"}
              THEN Put(e1, "server_method", spec_info.swift_method) ELSE e1
        e3 == IF direction = "server_to_client" /\ spec_info.client_handler # ""
              THEN Put(e2, "client_handler", spec_info.client_handler) ELSE e2
    IN e3

\* if field not in entry: (set it unless dry_run); changes += 1
FillField(acc, listKey, p, field, value, dry_run) ==
    IF Has(acc.m["modules"][p[1]][listKey][p[2]], field) THEN acc
    ELSE [m |-> IF dry_run THEN acc.m ELSE SetEntryField(acc.m, listKey, p, field, value),
          n |-> acc.n + 1]

\* One iteration of the loop of sync_methods.
SyncMethodStep(acc, method_name, spec_info, dry_run) ==
    LET p == find_method_in_manifest(acc.m, method_name)
    IN IF p = <<0, 0>>
       THEN LET module_id == get_module_id_from_method(method_name)
                fm == find_or_create_module(acc.m, module_id, dry_run)
            IN [m |-> IF dry_run THEN fm.m
                      ELSE AppendToModule(fm.m, fm.i, "methods", new_method(method_name, spec_info)),
                n |-> acc.n + 1]
       ELSE LET direction == spec_info.direction
                swift_method == spec_info.swift_method
                client_handler == spec_info.client_handler
            IN CASE direction = "client_to_server" ->
                      FillField(acc, "methods", p, "client_method", swift_method, dry_run)
                 [] direction = "server_to_client" ->
                      LET a1 == FillField(acc, "methods", p, "server_method", swift_method, dry_run)
                      IN IF client_handler # ""
                         THEN FillField(a1, "methods", p, "client_handler", client_handler, dry_run)
                         ELSE a1
                 [] direction = "bidirectional" ->
                      FillField(FillField(acc, "methods", p, "client_method", swift_method, dry_run),
                                "methods", p, "server_method", swift_method, dry_run)
                 [] OTHER -> acc

RECURSIVE SyncMethodsFold(_, _, _, _)
SyncMethodsFold(acc, names, spec_methods, dry_run) ==
    IF names = <<>> THEN acc
    ELSE SyncMethodsFold(SyncMethodStep(acc, Head(names), spec_methods[Head(names)], dry_run),
                         Tail(names), spec_methods, dry_run)

\* A synchronizer whose preview leaves out the new methods of a module the
\* manifest does not have yet.
sync_methods_known_modules(manifest, spec_methods, dry_run) ==
    SyncMethodsFold([m |-> manifest, n |-> 0],
                    Sorted({name \in DOMAIN spec_methods :
                              \/ ~dry_run
                              \/ find_method_in_manifest(manifest, name) # <<0, 0>>
                              \/ FindModule(manifest, get_module_id_from_method(name)) # 0}),
                    spec_methods, dry_run)

sync_methods(manifest, spec_methods, dry_run) ==
    SyncMethodsFold([m |-> manifest, n |-> 0], Sorted(DOMAIN spec_methods), spec_methods, dry_run)

SenderOf(direction) ==
    CASE direction = "client_to_server" -> "client"
      [] direction = "server_to_client" -> "server"
      [] OTHER -> "both"

new_notification(notif_name, spec_info) ==
    LET direction == spec_info.direction
        e0 == [name |-> notif_name,
               swift |-> spec_info.notification_type,
               sender |-> SenderOf(direction),
               verification |-> PendingBlock("Auto-added by sync")]
        e1 == IF direction \in {"server_to_client", "bidirectional"}
              THEN Put(e0, "server_send", spec_info.send_method) ELSE e0
        e2 == IF direction \in {"client_to_server", "bidirectional"}
              THEN Put(e1, "client_send", "notify") ELSE e1
    IN e2

\* One iteration of the loop of sync_notifications.
SyncNotificationStep(acc, notif_name, spec_info, dry_run) ==
    LET p == find_notification_in_manifest(acc.m, notif_name)
    IN IF p = <<0, 0>>
       THEN LET module_id == get_module_id_from_notification(notif_name)
                fm == find_or_create_module(acc.m, module_id, dry_run)
            IN [m |-> IF dry_run THEN fm.m
                      ELSE AppendToModule(fm.m, fm.i, "notifications",
                                          new_notification(notif_name, spec_info)),
                n |-> acc.n + 1]
       ELSE LET direction == spec_info.direction
                a1 == FillField(acc, "notifications", p, "sender", SenderOf(direction), dry_run)
                a2 == IF direction \in {"server_to_client", "bidirectional"}
                      THEN FillField(a1, "notifications", p, "server_send",
                                     spec_info.send_method, dry_run)
                      ELSE a1
                a3 == IF direction \in {"client_to_server", "bidirectional"}
                      THEN FillField(a2, "notifications", p, "client_send", "notify", dry_run)
                      ELSE a2
            IN a3

RECURSIVE SyncNotificationsFold(_, _, _, _)
SyncNotificationsFold(acc, names, spec_notifications, dry_run) ==
    IF names = <<>> THEN acc
    ELSE SyncNotificationsFold(
             SyncNotificationStep(acc, Head(names), spec_notifications[Head(names)], dry_run),
             Tail(names), spec_notifications, dry_run)

sync_notifications(manifest, spec_notifications, dry_run) ==
    SyncNotificationsFold([m |-> manifest, n |-> 0], Sorted(DOMAIN spec_notifications),
                          spec_notifications, dry_run)

\* Names the manifest's types section answers for: its keys and spec_name overrides.
ManifestTypeNames(manifest) ==
    LET types == Get(manifest, "types", <<>>)
    IN (DOMAIN types) \cup {types[t]["spec_name"] : t \in {u \in DOMAIN types : Has(types[u], "spec_name")}}

new_type(spec_type, spec_to_swift, swift_types) ==
    LET found == find_swift_type(spec_type, spec_to_swift, swift_types)
    IN IF found[1] # None
       THEN [swift |-> found[1],
             file |-> IF found[2] # None THEN found[2] ELSE "",
             verification |-> PendingBlock("Auto-discovered from Swift codebase")]
       ELSE [swift |-> "TODO_" \o spec_type,
             file |-> "",
             verification |-> PendingBlock("No matching Swift type found")]

RECURSIVE SyncTypesFold(_, _, _, _, _, _)
SyncTypesFold(acc, names, known, spec_to_swift, swift_types, dry_run) ==
    IF names = <<>> THEN acc
    ELSE LET spec_type == Head(names)
             next == IF spec_type \in known THEN acc
                     ELSE [m |-> IF dry_run THEN acc.m
                                 ELSE Put(acc.m, "types",
                                          Put(acc.m["types"], spec_type,
                                              new_type(spec_type, spec_to_swift, swift_types))),
                           n |-> acc.n + 1]
         IN SyncTypesFold(next, Tail(names), known, spec_to_swift, swift_types, dry_run)

sync_types(manifest, spec_types, swift_types, spec_to_swift, dry_run) ==
    LET m0 == SetDefault(manifest, "types", <<>>)
    IN SyncTypesFold([m |-> m0, n |-> 0], Sorted(spec_types), ManifestTypeNames(m0),
                     spec_to_swift, swift_types, dry_run)

\* {e[key]: e for e in list}: the index of the last entry carrying each key.
LastIndexOf(list, key, k) ==
    LET hits == {i \in DOMAIN list : list[i][key] = k}
    IN IF hits = {} THEN 0 ELSE CHOOSE i \in hits : \A j \in hits : j <= i

RECURSIVE CaseEntries(_)
CaseEntries(cases) ==
    IF cases = <<>> THEN <<>>
    ELSE <<[spec |-> Head(cases), swift |-> Head(cases)]>> \o CaseEntries(Tail(cases))

\* The missing members of `wanted`, in order, given what existed before the loop.
RECURSIVE MissingOf(_, _)
MissingOf(wanted, existing) ==
    IF wanted = <<>> THEN <<>>
    ELSE (IF Head(wanted) \in existing THEN <<>> ELSE <<Head(wanted)>>)
         \o MissingOf(Tail(wanted), existing)

RECURSIVE SyncEnumsFold(_, _, _, _, _)
SyncEnumsFold(acc, names, before, spec_enums, dry_run) ==
    IF names = <<>> THEN acc
    ELSE LET enum_name  == Head(names)
             spec_cases == spec_enums[enum_name]
             i          == LastIndexOf(before, "name", enum_name)
             next ==
               IF i = 0
               THEN [m |-> IF dry_run THEN acc.m
                           ELSE Put(acc.m, "enums",
                                    Append(acc.m["enums"],
                                           [name |-> enum_name, swift |-> enum_name, file |-> "",
                                            cases |-> CaseEntries(spec_cases),
                                            verification |-> PendingBlock("")])),
                     n |-> acc.n + 1]
               ELSE LET existing == acc.m["enums"][i]
                        cases    == Get(existing, "cases", <<>>)
                        existing_spec_cases ==
                            {Get(cases[c], "spec", Get(cases[c], "name", "")) : c \in DOMAIN cases}
                        missing  == MissingOf(spec_cases, existing_spec_cases)
                    IN [m |-> IF dry_run \/ missing = <<>> THEN acc.m
                              ELSE Put(acc.m, "enums",
                                       [acc.m["enums"] EXCEPT ![i] =
                                          Put(existing, "cases", cases \o CaseEntries(missing))]),
                        n |-> acc.n + Len(missing)]
         IN SyncEnumsFold(next, Tail(names), before, spec_enums, dry_run)

sync_enums(manifest, spec_enums, dry_run) ==
    LET m0 == SetDefault(manifest, "enums", <<>>)
    IN SyncEnumsFold([m |-> m0, n |-> 0], Sorted(DOMAIN spec_enums), m0["enums"], spec_enums, dry_run)

JSONRPC_ERROR_SWIFT_CASES ==
    [c \in {"PARSE_ERROR", "INVALID_REQUEST", "METHOD_NOT_FOUND", "INVALID_PARAMS", "INTERNAL_ERROR"} |->
       CASE c = "PARSE_ERROR"      -> "parseError"
         [] c = "INVALID_REQUEST"  -> "invalidRequest"
         [] c = "METHOD_NOT_FOUND" -> "methodNotFound"
         [] c = "INVALID_PARAMS"   -> "invalidParams"
         [] c = "INTERNAL_ERROR"   -> "internalError"]

new_code(code_name, code_value) ==
    LET base == [name |-> code_name,
                 code |-> code_value,
                 category |-> IF Has(JSONRPC_ERROR_SWIFT_CASES, code_name) THEN "jsonrpc" ELSE "mcp",
                 verification |-> PendingBlock("")]
    IN IF Has(JSONRPC_ERROR_SWIFT_CASES, code_name)
       THEN Put(base, "swift", JSONRPC_ERROR_SWIFT_CASES[code_name])
       ELSE Put(base, "swift_handling", "serverError(code:message:)")

RECURSIVE SyncErrorCodesFold(_, _, _, _, _)
SyncErrorCodesFold(acc, names, before, spec_codes, dry_run) ==
    IF names = <<>> THEN acc
    ELSE LET code_name == Head(names)
             next == IF LastIndexOf(before, "name", code_name) # 0 THEN acc
                     ELSE [m |-> IF dry_run THEN acc.m
                                 ELSE Put(acc.m, "error_codes",
                                          Append(acc.m["error_codes"],
                                                 new_code(code_name, spec_codes[code_name]))),
                           n |-> acc.n + 1]
         IN SyncErrorCodesFold(next, Tail(names), before, spec_codes, dry_run)

sync_error_codes(manifest, spec_codes, dry_run) ==
    LET m0 == SetDefault(manifest, "error_codes", <<>>)
    IN SyncErrorCodesFold([m |-> m0, n |-> 0], Sorted(DOMAIN spec_codes), m0["error_codes"],
                          spec_codes, dry_run)

RECURSIVE NestedEntries(_)
NestedEntries(names) ==
    IF names = <<>> THEN <<>>
    ELSE <<[name |-> Head(names), swift |-> Head(names)]>> \o NestedEntries(Tail(names))

\* The loop of sync_cap_list over one capability list.  nested.keys() is
\* visited in the schema document's key order, taken to be ascending.
RECURSIVE SyncCapListFold(_, _, _, _, _, _)
SyncCapListFold(acc, names, before, cap_type, spec_caps, dry_run) ==
    IF names = <<>> THEN acc
    ELSE LET prop_name == Head(names)
             nested    == spec_caps[prop_name]
             caps      == acc.m["capabilities"]
             i         == LastIndexOf(before, "property", prop_name)
             next ==
               IF i = 0
               THEN [m |-> IF dry_run THEN acc.m
                           ELSE Put(acc.m, "capabilities",
                                    Put(caps, cap_type,
                                        Append(caps[cap_type],
                                               [property |-> prop_name, swift |-> prop_name,
                                                nested |-> NestedEntries(Sorted(DOMAIN nested)),
                                                verification |-> PendingBlock("")]))),
                     n |-> acc.n + 1]
               ELSE LET cap_entry == caps[cap_type][i]
                        have      == Get(cap_entry, "nested", <<>>)
                        existing_nested ==
                            {Get(have[k], "name", Get(have[k], "swift", "")) : k \in DOMAIN have}
                        missing   == MissingOf(Sorted(DOMAIN nested), existing_nested)
                    IN [m |-> IF dry_run \/ missing = <<>> THEN acc.m
                              ELSE Put(acc.m, "capabilities",
                                       Put(caps, cap_type,
                                           [caps[cap_type] EXCEPT ![i] =
                                              Put(cap_entry, "nested", have \o NestedEntries(missing))])),
                        n |-> acc.n + Len(missing)]
         IN SyncCapListFold(next, Tail(names), before, cap_type, spec_caps, dry_run)

sync_cap_list(acc, cap_type, spec_caps, dry_run) ==
    LET m0 == Put(acc.m, "capabilities", SetDefault(acc.m["capabilities"], cap_type, <<>>))
    IN SyncCapListFold([m |-> m0, n |-> acc.n], Sorted(DOMAIN spec_caps),
                       m0["capabilities"][cap_type], cap_type, spec_caps, dry_run)

sync_capabilities(manifest, client_caps, server_caps, dry_run) ==
    LET m0 == SetDefault(manifest, "capabilities", [client |-> <<>>, server |-> <<>>])
    IN sync_cap_list(sync_cap_list([m |-> m0, n |-> 0], "client", client_caps, dry_run),
                     "server", server_caps, dry_run)

NotesLimit == 100

Truncate(s, n) == SubSeq(s, 1, IF Len(s) < n THEN Len(s) ELSE n)

RECURSIVE SyncDeprecatedFold(_, _, _, _, _)
SyncDeprecatedFold(acc, names, before, spec_deprecated, dry_run) ==
    IF names = <<>> THEN acc
    ELSE LET type_name == Head(names)
             next == IF LastIndexOf(before, "name", type_name) # 0 THEN acc
                     ELSE [m |-> IF dry_run THEN acc.m
                                 ELSE Put(acc.m, "deprecated",
                                          Append(acc.m["deprecated"],
                                                 [name |-> type_name, replacement |-> "",
                                                  notes |-> Truncate(spec_deprecated[type_name],
                                                                     NotesLimit)])),
                           n |-> acc.n + 1]
         IN SyncDeprecatedFold(next, Tail(names), before, spec_deprecated, dry_run)

sync_deprecated(manifest, spec_deprecated, dry_run) ==
    LET m0 == SetDefault(manifest, "deprecated", <<>>)
    IN SyncDeprecatedFold([m |-> m0, n |-> 0], Sorted(DOMAIN spec_deprecated), m0["deprecated"],
                          spec_deprecated, dry_run)

(***************************************************************************)
(* verify-protocol-coverage.py: scanning Swift source text.                *)
(*                                                                         *)
(* The SDK tree is a function from the paths of its files (relative to the *)
(* SDK root) to their text; a path outside its DOMAIN does not exist.      *)
(* Regular expressions are matched as the re module matches them.          *)
(***************************************************************************)
WordChars == UpperCase \o LowerCase \o Digits \o "_"

SpaceChars == " \n\t"

IsWordChar(c) == c # "" /\ Contains(WordChars, c)

ReadText(sdk, path) == IF path \in DOMAIN sdk THEN sdk[path] ELSE ""

\* re.sub(r'//.*$', '', content, flags=re.MULTILINE): a character goes when
\* a "//" starts at or before it on its own line.
StripLineComments(s) ==
    LET starts   == {j \in 1..(Len(s) - 1) : SubSeq(s, j, j + 1) = "//"}
        newlines == {k \in 1..Len(s) : Char(s, k) = "\n"}
    IN IF starts = {} THEN s
       ELSE Join([i \in 1..Len(s) |->
                    IF /\ i \notin newlines
                       /\ \E j \in starts : j <= i /\ \A k \in newlines : k < j \/ k > i
                    THEN "" ELSE Char(s, i)])

\* re.sub(r'/\*.*?\*/', '', content, flags=re.DOTALL): each "/*" goes with
\* the text up to the first "*/" after it; an unclosed "/*" stays.
RECURSIVE StripBlockComments(_)
StripBlockComments(s) ==
    LET i == Find(s, "/*")
        e == IF i = 0 THEN 0 ELSE Find(Drop(s, i + 1), "*/")
    IN IF i = 0 \/ e = 0 THEN s
       ELSE SubSeq(s, 1, i - 1) \o StripBlockComments(Drop(s, i + 1 + e + 1))

\* Whether  func\s+NAME\s*[<(]  matches at the start of s.
MatchFuncDecl(s, name) ==
    /\ StartsWith(s, "func")
    /\ LET a == Drop(s, 4)
           w == SpanLen(a, SpaceChars)
           b == Drop(a, w)
       IN /\ w > 0
          /\ StartsWith(b, name)
          /\ LET c == Drop(b, Len(name))
                 d == Drop(c, SpanLen(c, SpaceChars))
             IN StartsWith(d, "<") \/ StartsWith(d, "(")

\* Whether  (?:public\s+|internal\s+|open\s+)?func\s+NAME\s*[<(]  matches at the start of s.
MatchAccessFuncDecl(s, name) ==
    \/ MatchFuncDecl(s, name)
    \/ \E access \in {"public", "internal", "open"} :
         /\ StartsWith(s, access)
         /\ SpanLen(Drop(s, Len(access)), SpaceChars) > 0
         /\ MatchFuncDecl(Drop(s, Len(access) + SpanLen(Drop(s, Len(access)), SpaceChars)), name)

\* The pattern starts at a line start or where the character before is not a word character.
method_exists(method_name, content) ==
    LET text == StripBlockComments(StripLineComments(content))
    IN \E i \in 1..Len(text) :
         /\ i = 1 \/ ~IsWordChar(Char(text, i - 1))
         /\ MatchAccessFuncDecl(Drop(text, i - 1), method_name)

\* re.search(rf'var\s+{name}\s*:', content)
VarDeclared(name, content) ==
    \E i \in 1..Len(content) :
       LET s == Drop(content, i - 1)
           a == Drop(s, 3)
           w == SpanLen(a, SpaceChars)
           b == Drop(a, w)
           c == Drop(b, Len(name))
       IN /\ StartsWith(s, "var")
          /\ w > 0
          /\ StartsWith(b, name)
          /\ StartsWith(Drop(c, SpanLen(c, SpaceChars)), ":")

\* Whether  head\s+  matches at offset i of s (1-based).
HeadAt(s, i, head) ==
    /\ i + Len(head) <= Len(s)
    /\ SubSeq(s, i, i + Len(head) - 1) = head
    /\ SpanLen(Drop(s, i + Len(head) - 1), SpaceChars) > 0

\* Matching of  enum\s+NAME\s*[^{]*\{ : the offset of its "{" for the
\* leftmost match, 0 when the pattern is not found.
EnumHeaderBrace(content, enum_name) ==
    LET \* For an "enum" at offset i: the text from the name on, and the
        \* distance from the end of the name to the first "{".
        nameAt(i)  == Skip(Drop(content, i + 3), SpaceChars)
        toBrace(i) == Find(Drop(nameAt(i), Len(enum_name)), "{")
        Brace(i) ==
            IF i = 0 THEN 0
            ELSE (Len(content) - Len(nameAt(i))) + Len(enum_name) + toBrace(i)
    IN Brace(Leftmost({i \in 1..Len(content) :
                         /\ HeadAt(content, i, "enum")
                         /\ StartsWith(nameAt(i), enum_name)
                         /\ toBrace(i) # 0}))

\* The brace-counting loop: content[start:pos] for the "{" at offset `brace`.
EnumBody(content, brace) ==
    LET count(c, p) == Cardinality({k \in (brace + 1)..p : Char(content, k) = c})
        Upto(close) == SubSeq(content, brace, IF close = 0 THEN Len(content) ELSE close)
    IN Upto(Leftmost({p \in (brace + 1)..Len(content) :
                        Char(content, p) = "}" /\ 1 + count("{", p) - count("}", p) = 0}))

\* finditer of  case\s+(\w+)(?:\s*=\s*["']([^"']+)["'])?  over s: for each
\* match its raw value if it has one, its case name otherwise.
RECURSIVE CaseValues(_)
CaseValues(s) ==
    LET Quoted(x) == StartsWith(x, "\"") \/ StartsWith(x, "'")
        \* name: the case name, c: the text after it, d: that text after any
        \* spaces, e: the text after an "=" and any spaces, r: the length of a
        \* raw value after e's quote.
        Value(name, c, d, e, r) ==
            IF StartsWith(d, "=") /\ Quoted(e) /\ r > 0 /\ Quoted(Drop(e, 1 + r))
            THEN <<SubSeq(e, 2, 1 + r)>> \o CaseValues(Drop(e, 2 + r))
            ELSE <<name>> \o CaseValues(c)
        Raw(name, c, d, e) ==
            Value(name, c, d, e, SpanLen(Drop(e, 1), WordChars \o SpaceChars \o "-./:"))
        Assigned(name, c, d) == Raw(name, c, d, Drop(d, 1 + SpanLen(Drop(d, 1), SpaceChars)))
        After(name, c) == Assigned(name, c, Skip(c, SpaceChars))
        Named(b) == After(SubSeq(b, 1, SpanLen(b, WordChars)), Skip(b, WordChars))
        From(i) == IF i = 0 THEN <<>> ELSE Named(Skip(Drop(s, i + 3), SpaceChars))
    IN From(Leftmost({i \in 1..Len(s) :
                        /\ HeadAt(s, i, "case")
                        /\ SpanLen(Skip(Drop(s, i + 3), SpaceChars), WordChars) > 0}))

\* The Swift files rglob("*.swift") yields under Sources, .build skipped,
\* visited in ascending path order.
SwiftSourceFiles(sdk) ==
    Sorted({f \in DOMAIN sdk : StartsWith(f, "Sources/") /\ EndsWith(f, ".swift")
                               /\ ~Contains(f, ".build")})

\* The sorted cases of the first file declaring the enum; None (written <<>>:
\* the code returns None exactly when it found no case) otherwise.
extract_swift_enum_cases(sdk, enum_name) ==
    LET Cases(content) ==
            SortedList(CaseValues(EnumBody(content, EnumHeaderBrace(content, enum_name))))
        First(files, i) == IF i = 0 THEN <<>> ELSE Cases(sdk[files[i]])
        In(files) ==
            First(files, Leftmost({i \in DOMAIN files :
                                     EnumHeaderBrace(sdk[files[i]], enum_name) # 0}))
    IN In(SwiftSourceFiles(sdk))

\* One match of  :\s*return\s*(-\d+)  at the start of s: the length matched, 0 if none.
ReturnCodeLen(s) ==
    LET Code(b, before) ==
            LET k == SpanLen(Drop(b, 1), Digits)
            IN IF StartsWith(b, "-") /\ k > 0 THEN before + 1 + k ELSE 0
        Return(a, before) ==
            IF ~StartsWith(a, "return") THEN 0
            ELSE Code(Skip(Drop(a, 6), SpaceChars),
                      before + 6 + SpanLen(Drop(a, 6), SpaceChars))
    IN IF ~StartsWith(s, ":") THEN 0
       ELSE Return(Skip(Drop(s, 1), SpaceChars), 1 + SpanLen(Drop(s, 1), SpaceChars))

\* finditer of  case\s+\.(\w+).*?:\s*return\s*(-\d+)  with re.DOTALL over s:
\* the <<case name, code>> pairs in order.
RECURSIVE SwiftCodeMatches(_)
SwiftCodeMatches(s) ==
    LET \* For a "case" at offset i: the text from the case name on, and the
        \* offsets after the name's first character where the tail matches.
        nameAt(i) == Drop(Skip(Drop(s, i + 3), SpaceChars), 1)
        tails(i)  == {t \in (Len(s) - Len(nameAt(i)) + 2)..Len(s) :
                        ReturnCodeLen(Drop(s, t - 1)) # 0}
        CodeText(tail) == Drop(tail, Find(tail, "-") - 1)
        \* \w+ gives back characters until the rest can match: the name ends
        \* before the tail, `room` characters after its start.
        Emit(nm, room, t, len) ==
            <<<<SubSeq(nm, 1, IF SpanLen(nm, WordChars) < room
                               THEN SpanLen(nm, WordChars) ELSE room),
                ParseInt(CodeText(SubSeq(s, t, t + len - 1)))>>>>
            \o SwiftCodeMatches(Drop(s, t + len - 1))
        Match(i, t) ==
            Emit(nameAt(i), t - (Len(s) - Len(nameAt(i)) + 1), t, ReturnCodeLen(Drop(s, t - 1)))
        From(i) == IF i = 0 THEN <<>> ELSE Match(i, Leftmost(tails(i)))
    IN From(Leftmost({i \in 1..Len(s) :
                        /\ HeadAt(s, i, "case")
                        /\ StartsWith(Skip(Drop(s, i + 3), SpaceChars), ".")
                        /\ SpanLen(nameAt(i), WordChars) > 0
                        /\ tails(i) # {}}))

\* swift_codes: each case name with the code of its last match.
SwiftCodes(content) == DictOf(SwiftCodeMatches(content))

(***************************************************************************)
(* verify-protocol-coverage.py: class Verifier                             *)
(***************************************************************************)
DEFAULT_PROTOCOL_VERSION == "2025-11-25"

ModulesOf(manifest) == Get(manifest, "modules", <<>>)

TypesOf(manifest) == Get(manifest, "types", <<>>)

\* Every entry of the given list of every module, in document order.
RECURSIVE EntriesFrom(_, _)
EntriesFrom(modules, listKey) ==
    IF modules = <<>> THEN <<>>
    ELSE Get(Head(modules), listKey, <<>>) \o EntriesFrom(Tail(modules), listKey)

IsTodo(entry) == Get(entry, "implementation", None) = "todo"

extract_not_implemented(manifest) ==
    LET modules == ModulesOf(manifest)
        entries == EntriesFrom(modules, "methods") \o EntriesFrom(modules, "notifications")
        types   == TypesOf(manifest)
    IN [not_impl_files |-> {modules[i]["swift_file"] : i \in
                              {j \in DOMAIN modules :
                                 IsTodo(modules[j]) /\ Has(modules[j], "swift_file")}},
        not_impl_types |->
              {entries[i]["swift"] : i \in
                 {j \in DOMAIN entries : IsTodo(entries[j]) /\ Has(entries[j], "swift")}}
          \cup {types[t]["swift"] : t \in
                 {u \in DOMAIN types : IsTodo(types[u]) /\ Has(types[u], "swift")}},
        builtin_types |-> {Strip(types[t]["swift"], "[]\"") : t \in
                             {u \in DOMAIN types : /\ Get(types[u], "kind", None) = "builtin"
                                                   /\ Has(types[u], "swift")}}]

\* The regex fallback compiles its pattern without re.MULTILINE, so ^ is the
\* start of the file: the name declared at offset 0, None if there is none.
FallbackTypeAtStart(content) ==
    LET prefixes == {"public ", "open ", "internal ", "private ", "fileprivate "}
        keywords == {"struct", "class", "enum", "protocol", "typealias", "actor"}
        bodies   == {content} \cup {Drop(content, Len(q)) : q \in {r \in prefixes : StartsWith(content, r)}}
        names    == {LET rest == Drop(b[1], Len(b[2]) + 1)
                     IN SubSeq(rest, 1, SpanLen(rest, WordChars)) :
                       b \in {c \in bodies \X keywords :
                                /\ StartsWith(c[1], c[2] \o " ")
                                /\ IsUpper(Char(Drop(c[1], Len(c[2]) + 1), 1))}}
    IN IF names = {} THEN None ELSE CHOOSE n \in names : TRUE

\* [raised |-> the subprocess raised (nothing catches it), types |-> swift_types].
build_swift_type_index(sdk, tool) ==
    IF tool.dir
    THEN IF tool.status # "ok" THEN [raised |-> TRUE, types |-> {}]
         ELSE LET lines == [i \in DOMAIN tool.stdout |-> Strip(tool.stdout[i], " ")]
              IN [raised |-> FALSE,
                  types  |-> {Split(lines[i], ":")[1] : i \in
                                {j \in DOMAIN lines : lines[j] # "" /\ Contains(lines[j], ":")}}]
    ELSE LET files == SwiftSourceFiles(sdk)
         IN [raised |-> FALSE,
             types  |-> {FallbackTypeAtStart(sdk[files[i]]) : i \in DOMAIN files} \ {None}]

\* One pass of either loop of validate_swift_files: acc = [errors, checked].
ValidateOne(acc, swift_file, is_not_impl, sdk, only_swift) ==
    IF swift_file = None \/ swift_file \in acc.checked THEN acc
    ELSE IF only_swift /\ ~EndsWith(swift_file, ".swift") THEN acc
    ELSE [errors  |-> IF swift_file \in DOMAIN sdk \/ is_not_impl
                      THEN acc.errors ELSE acc.errors + 1,
          checked |-> acc.checked \cup {swift_file}]

RECURSIVE ValidateModules(_, _, _)
ValidateModules(modules, acc, sdk) ==
    IF modules = <<>> THEN acc
    ELSE ValidateModules(Tail(modules),
            ValidateOne(acc, Get(Head(modules), "swift_file", None),
                        IsTodo(Head(modules)), sdk, FALSE), sdk)

RECURSIVE ValidateTypes(_, _, _, _)
ValidateTypes(names, types, acc, sdk) ==
    IF names = <<>> THEN acc
    ELSE ValidateTypes(Tail(names), types,
            ValidateOne(acc, Get(types[Head(names)], "file", None),
                        IsTodo(types[Head(names)]), sdk, TRUE), sdk)

validate_swift_files(manifest, sdk) ==
    LET types == TypesOf(manifest)
        a1    == ValidateModules(ModulesOf(manifest), [errors |-> 0, checked |-> {}], sdk)
    IN ValidateTypes(Sorted(DOMAIN types), types, a1, sdk).errors

check_spec_to_manifest(manifest, spec_types) ==
    LET types == TypesOf(manifest)
        manifest_types == DOMAIN types \cup
                          {types[t]["spec_name"] : t \in {u \in DOMAIN types : Has(types[u], "spec_name")}}
    IN Cardinality(spec_types \ manifest_types)

check_manifest_to_swift(manifest, swift_types) ==
    LET types   == TypesOf(manifest)
        todo    == {t \in DOMAIN types : IsTodo(types[t])}
        builtin == {t \in DOMAIN types \ todo : Get(types[t], "kind", None) = "builtin"}
        name(t) == Strip(Get(types[t], "swift", t), "[]\"'")
        checked == {t \in DOMAIN types \ (todo \cup builtin) :
                      /\ Get(types[t], "swift", t) \notin {"", "null"}
                      /\ name(t) # ""}
    IN [errors |-> Cardinality({t \in checked : name(t) \notin swift_types}),
        found  |-> Cardinality({t \in checked : name(t) \in swift_types}),
        not_impl_count |-> Cardinality(todo),
        builtin_count  |-> Cardinality(builtin)]

NamesIn(entries) == {entries[i]["name"] : i \in {j \in DOMAIN entries : Has(entries[j], "name")}}

\* <<method gaps, notification gaps>>
check_methods(manifest, schema) ==
    LET spec == extract_methods_and_notifications(schema)
    IN <<Cardinality(spec[1] \ NamesIn(EntriesFrom(ModulesOf(manifest), "methods"))),
         Cardinality(spec[2] \ NamesIn(EntriesFrom(ModulesOf(manifest), "notifications")))>>

ClientSwift == "Sources/MCP/Client/Client.swift"

ServerSwift == "Sources/MCP/Server/Server.swift"

ErrorSwift == "Sources/MCP/Base/Error.swift"

\* The checks one method entry makes, as the sequence of their outcomes
\* (TRUE = found).  Nothing here looks at the entry's implementation field.
MethodChecks(method, sdk) ==
    LET client_content == ReadText(sdk, ClientSwift)
        server_content == ReadText(sdk, ServerSwift)
        c1 == IF Truthy(method, "client_method")
              THEN <<method_exists(method["client_method"], client_content)>> ELSE <<>>
        c2 == IF Truthy(method, "server_method")
              THEN <<method_exists(method["server_method"], server_content)>> ELSE <<>>
        c3 == IF Truthy(method, "client_handler")
              THEN <<method_exists(method["client_handler"], client_content)>> ELSE <<>>
        c4 == IF Has(method, "handler_registration")
              THEN LET handler_reg == method["handler_registration"]
                   IN <<handler_reg["file"] \in DOMAIN sdk
                        /\ Contains(sdk[handler_reg["file"]], handler_reg["pattern"])>>
              ELSE <<>>
    IN c1 \o c2 \o c3 \o c4

NotificationChecks(notification, sdk) ==
    LET c1 == IF Truthy(notification, "server_send")
              THEN <<method_exists(notification["server_send"], ReadText(sdk, ServerSwift))>>
              ELSE <<>>
        c2 == IF Truthy(notification, "client_send")
              THEN <<notification["client_send"] = "notify"
                     \/ method_exists(notification["client_send"], ReadText(sdk, ClientSwift))>>
              ELSE <<>>
    IN c1 \o c2

\* [errors, found] over the outcomes of every entry's checks.
RECURSIVE TallyChecks(_)
TallyChecks(outcomes) ==
    IF outcomes = <<>> THEN [errors |-> 0, found |-> 0]
    ELSE LET cs   == Head(outcomes)
             rest == TallyChecks(Tail(outcomes))
         IN [errors |-> rest.errors + Cardinality({i \in DOMAIN cs : ~cs[i]}),
             found  |-> rest.found + Cardinality({i \in DOMAIN cs : cs[i]})]

check_method_implementations(manifest, sdk) ==
    LET methods == EntriesFrom(ModulesOf(manifest), "methods")
    IN TallyChecks([i \in DOMAIN methods |-> MethodChecks(methods[i], sdk)])

check_notification_implementations(manifest, sdk) ==
    LET notifications == EntriesFrom(ModulesOf(manifest), "notifications")
    IN TallyChecks([i \in DOMAIN notifications |-> NotificationChecks(notifications[i], sdk)])

\* The verdict of the Manifest -> Swift loop of check_enums on one entry:
\* "missing", "found" or "skipped".
\* A check that takes any difference between the two case sets for a gap.
EnumVerdictExact(enum_entry, spec_enums, sdk) ==
    IF Range(Get(spec_enums, enum_entry["name"], <<>>))
       = Range(extract_swift_enum_cases(sdk, Get(enum_entry, "swift", enum_entry["name"])))
    THEN "found" ELSE "missing"

EnumVerdict(enum_entry, spec_enums, sdk) ==
    LET enum_name   == enum_entry["name"]
        swift_name  == Get(enum_entry, "swift", enum_name)
        spec_values == Get(spec_enums, enum_name, <<>>)
        Compared(swift_cases) ==
            IF swift_cases = <<>> THEN "missing"
            ELSE IF Range(spec_values) \subseteq Range(swift_cases) THEN "found"
            ELSE "missing"
    IN IF swift_name = "" \/ swift_name = "null" THEN "missing"
       ELSE IF spec_values = <<>> THEN "skipped"
       ELSE Compared(extract_swift_enum_cases(sdk, swift_name))

\* [gaps |-> Spec -> Manifest gaps, found, missing |-> Manifest -> Swift]
check_enums(manifest, schema, sdk) ==
    LET Tally(manifest_enums, spec_enums, verdict) ==
            [gaps    |-> Cardinality(DOMAIN spec_enums \ NamesIn(manifest_enums)),
             found   |-> Cardinality({i \in DOMAIN verdict : verdict[i] = "found"}),
             missing |-> Cardinality({i \in DOMAIN verdict : verdict[i] = "missing"})]
        Checked(manifest_enums, spec_enums) ==
            Tally(manifest_enums, spec_enums,
                  [i \in DOMAIN manifest_enums |->
                     EnumVerdict(manifest_enums[i], spec_enums, sdk)])
    IN Checked(Get(manifest, "enums", <<>>), extract_enums(schema))

ErrorCodeFound(code_entry, swift_codes) ==
    IF Truthy(code_entry, "swift")
    THEN /\ Has(swift_codes, code_entry["swift"])
         /\ swift_codes[code_entry["swift"]] = code_entry["code"]
    ELSE TRUE

check_error_codes(manifest, schema_ts, sdk) ==
    LET Tally(manifest_codes, spec_codes, found) ==
            [gaps    |-> Cardinality(DOMAIN spec_codes \ NamesIn(manifest_codes)),
             found   |-> Cardinality(found),
             missing |-> Len(manifest_codes) - Cardinality(found)]
        Found(manifest_codes, swift_codes) ==
            {i \in DOMAIN manifest_codes : ErrorCodeFound(manifest_codes[i], swift_codes)}
        Checked(manifest_codes) ==
            Tally(manifest_codes, extract_error_codes(schema_ts),
                  Found(manifest_codes, SwiftCodes(sdk[ErrorSwift])))
    IN IF ErrorSwift \notin DOMAIN sdk THEN [gaps |-> 0, found |-> 0, missing |-> 1]
       ELSE Checked(Get(manifest, "error_codes", <<>>))

\* A check that looks for the top-level property only.
CapFoundTopLevelOnly(cap_entry, content) ==
    /\ Get(Get(cap_entry, "verification", <<>>), "status", "pending") # "missing"
    /\ VarDeclared(Get(cap_entry, "swift", cap_entry["property"]), content)

\* The verdict of check_cap_list on one entry: TRUE = found, FALSE = missing.
CapFound(cap_entry, content) ==
    LET prop_name  == cap_entry["property"]
        swift_name == Get(cap_entry, "swift", prop_name)
        nested     == Get(cap_entry, "nested", <<>>)
        status     == Get(Get(cap_entry, "verification", <<>>), "status", "pending")
        nested_name(i) == Get(nested[i], "swift", Get(nested[i], "name", None))
    IN /\ status # "missing"
       /\ swift_name # "null"
       /\ VarDeclared(swift_name, content)
       /\ \A i \in DOMAIN nested :
             nested_name(i) # None => VarDeclared(nested_name(i), content)

check_cap_list(cap_list, content) ==
    LET found == {i \in DOMAIN cap_list : CapFound(cap_list[i], content)}
    IN [found |-> Cardinality(found), missing |-> Len(cap_list) - Cardinality(found)]

PropertiesIn(cap_list) == {cap_list[i]["property"] : i \in DOMAIN cap_list}

check_capabilities(manifest, schema, sdk) ==
    LET manifest_caps == Get(manifest, "capabilities", <<>>)
        client == Get(manifest_caps, "client", <<>>)
        server == Get(manifest_caps, "server", <<>>)
        c == check_cap_list(client, ReadText(sdk, ClientSwift))
        v == check_cap_list(server, ReadText(sdk, ServerSwift))
    IN [gaps    |-> Cardinality(DOMAIN extract_capabilities(schema, "ClientCapabilities")
                                  \ PropertiesIn(client))
                    + Cardinality(DOMAIN extract_capabilities(schema, "ServerCapabilities")
                                    \ PropertiesIn(server)),
        found   |-> c.found + v.found,
        missing |-> c.missing + v.missing]

\* VerificationResults(): every count starts at 0.
VerificationResults ==
    [file_errors |-> 0,
     types_spec_manifest |-> 0, methods_spec_manifest |-> 0, notifs_spec_manifest |-> 0,
     caps_spec_manifest |-> 0, enums_spec_manifest |-> 0, errors_spec_manifest |-> 0,
     types_swift_found |-> 0, types_swift_missing |-> 0,
     methods_swift_found |-> 0, methods_swift_missing |-> 0,
     notifs_swift_found |-> 0, notifs_swift_missing |-> 0,
     caps_swift_found |-> 0, caps_swift_missing |-> 0,
     enums_swift_found |-> 0, enums_swift_missing |-> 0,
     errors_swift_found |-> 0, errors_swift_missing |-> 0,
     not_impl_count |-> 0, builtin_count |-> 0]

SpecManifestTotal(results) ==
    results.types_spec_manifest + results.methods_spec_manifest + results.notifs_spec_manifest
    + results.enums_spec_manifest + results.errors_spec_manifest + results.caps_spec_manifest

ManifestSwiftTotal(results) ==
    results.types_swift_missing + results.methods_swift_missing + results.notifs_swift_missing
    + results.enums_swift_missing + results.errors_swift_missing + results.caps_swift_missing

\* A summary that totals the twelve category counts only.
print_summary_categories(results) ==
    IF SpecManifestTotal(results) + ManifestSwiftTotal(results) = 0 THEN 0 ELSE 1

\* The value print_summary returns, which main passes to sys.exit.
print_summary(results) ==
    IF results.file_errors + SpecManifestTotal(results) + ManifestSwiftTotal(results) = 0
    THEN 0 ELSE 1

\* The report sections, by the header each step prints first.
IndexSection == "BUILDING SWIFT TYPE INDEX"

FileSection == "SWIFT FILE VALIDATION"

SpecTypesSection == "EXTRACTING SPEC TYPES"

CheckSections ==
    <<"SPEC -> MANIFEST", "MANIFEST -> SWIFT (types section)", "METHOD & NOTIFICATION COVERAGE",
      "METHOD IMPLEMENTATIONS", "NOTIFICATION IMPLEMENTATIONS", "ENUM VERIFICATION",
      "ERROR CODE VERIFICATION", "CAPABILITY STRUCTURE VERIFICATION", "NOT YET IMPLEMENTED",
      "SUMMARY">>

\* What a process leaves behind.  exit is its exit status (an uncaught
\* exception ends the interpreter with status 1 and is named in raised);
\* before is the manifest file it found, doc its in-memory document when it
\* ended (before, if it never loaded one), wrote whether it wrote the file;
\* spec_methods, spec_notifications, spec_types and spec_deprecated are what
\* the synchronizer loaded from the schema.  For the runner: skip_clone is
\* its flag, cache_before whether the spec cache existed when it started,
\* cache_written whether it replaced the cache, temp_made whether it called
\* mkdtemp, temp_dir the value of verifier.temp_dir and temp_exists whether
\* the directory it made is on disk.
RunRecord(cmd, dry_run, before) ==
    [cmd |-> cmd, dry_run |-> dry_run, before |-> before, loaded |-> FALSE, doc |-> before,
     spec_methods |-> <<>>, spec_notifications |-> <<>>,
     spec_types |-> {}, spec_deprecated |-> <<>>,
     wrote |-> FALSE, exit |-> 0, raised |-> None, printed |-> <<>>,
     results |-> VerificationResults, cloned |-> FALSE, count |-> 0,
     skip_clone |-> FALSE, cache_before |-> FALSE, cache_written |-> FALSE,
     temp_made |-> FALSE, temp_dir |-> None, temp_exists |-> FALSE,
     changes |-> [types |-> 0, methods |-> 0, notifications |-> 0, enums |-> 0,
                  error_codes |-> 0, capabilities |-> 0, deprecated |-> 0]]

Raise(rec, exc) == [rec EXCEPT !.exit = 1, !.raised = exc]

\* The checks of Verifier.run once the schema is loaded: the results they fill in.
RunChecks(manifest, schema, schema_ts, sdk, swift_types, file_errors) ==
    LET Filled(types_gaps, t, c, m, n, e, r, k) ==
            [file_errors |-> file_errors,
             types_spec_manifest |-> types_gaps,
             methods_spec_manifest |-> c[1], notifs_spec_manifest |-> c[2],
             caps_spec_manifest |-> k.gaps, enums_spec_manifest |-> e.gaps,
             errors_spec_manifest |-> r.gaps,
             types_swift_found |-> t.found, types_swift_missing |-> t.errors,
             methods_swift_found |-> m.found, methods_swift_missing |-> m.errors,
             notifs_swift_found |-> n.found, notifs_swift_missing |-> n.errors,
             caps_swift_found |-> k.found, caps_swift_missing |-> k.missing,
             enums_swift_found |-> e.found, enums_swift_missing |-> e.missing,
             errors_swift_found |-> r.found, errors_swift_missing |-> r.missing,
             not_impl_count |-> t.not_impl_count, builtin_count |-> t.builtin_count]
    IN Filled(check_spec_to_manifest(manifest, extract_types(schema)),
              check_manifest_to_swift(manifest, swift_types),
              check_methods(manifest, schema),
              check_method_implementations(manifest, sdk),
              check_notification_implementations(manifest, sdk),
              check_enums(manifest, schema, sdk),
              check_error_codes(manifest, schema_ts, sdk),
              check_capabilities(manifest, schema, sdk))

\* Verifier.run under main: repo = [versions |-> the versions whose
\* schema.json exists, schema, schema_ts] is the specification repository as
\* cloned or cached, cache whether /tmp/mcp-spec-cache exists, clone_ok
\* whether git clone would succeed.
\* Verifier.clone_spec on the record of the run so far: the cache is used
\* only with --skip-clone and an existing cache; otherwise a temporary
\* directory is made, removed again if the clone fails, and a clone that
\* succeeds replaces the cache.
clone_spec(rec, cache, skip_clone, clone_ok) ==
    IF skip_clone /\ cache THEN rec
    ELSE LET made == [rec EXCEPT !.temp_made = TRUE, !.temp_dir = "tmp", !.temp_exists = TRUE]
         IN IF ~clone_ok
            THEN Raise([made EXCEPT !.temp_exists = FALSE, !.temp_dir = None], "RuntimeError")
            ELSE [made EXCEPT !.cloned = TRUE, !.cache_written = TRUE]

run(file, repo, sdk, tool, cache, skip_clone, clone_ok) ==
    LET manifest == file
        protocol_version == Get(manifest, "target_protocol_version", DEFAULT_PROTOCOL_VERSION)
        use_cache == skip_clone /\ cache
        r0 == [RunRecord("verify", FALSE, file) EXCEPT !.loaded = TRUE,
                                                        !.skip_clone = skip_clone,
                                                        !.cache_before = cache]
        r1 == [r0 EXCEPT !.printed = <<IndexSection>>]
        Summarised(r4, results) ==
            [r4 EXCEPT !.printed = @ \o CheckSections,
                       !.results = results,
                       !.exit = print_summary(results)]
        Validated(index, file_errors) ==
            LET r2 == [r1 EXCEPT !.printed = @ \o <<FileSection>>,
                                 !.results.file_errors = file_errors]
                r3 == clone_spec(r2, cache, skip_clone, clone_ok)
                r4 == [r3 EXCEPT !.printed = @ \o <<SpecTypesSection>>]
            IN IF r3.raised # None THEN r3
               ELSE IF protocol_version \notin repo.versions THEN Raise(r4, "FileNotFoundError")
               ELSE Summarised(r4, RunChecks(manifest, repo.schema, repo.schema_ts, sdk,
                                             index.types, file_errors))
        Indexed(index) ==
            IF index.raised
            THEN Raise(r1, IF tool.status = "timeout" THEN "TimeoutExpired" ELSE "FileNotFoundError")
            ELSE Validated(index, validate_swift_files(manifest, sdk))
    IN Indexed(build_swift_type_index(sdk, tool))

\* A runner whose main has no finally clause.
verify_main_unguarded(file, repo, sdk, tool, cache, skip_clone, clone_ok) ==
    run(file, repo, sdk, tool, cache, skip_clone, clone_ok)

\* main of verify-protocol-coverage.py: whatever way run ends, the finally
\* clause removes verifier.temp_dir if it is set and exists.
verify_main(file, repo, sdk, tool, cache, skip_clone, clone_ok) ==
    LET Finally(r) ==
            IF r.temp_dir # None /\ r.temp_exists THEN [r EXCEPT !.temp_exists = FALSE] ELSE r
    IN Finally(run(file, repo, sdk, tool, cache, skip_clone, clone_ok))

(***************************************************************************)
(* sync-manifest.py: main                                                  *)
(***************************************************************************)
SyncProtocolVersion == "2025-11-25"

TotalChanges(changes) ==
    changes.types + changes.methods + changes.notifications + changes.enums
    + changes.error_codes + changes.capabilities + changes.deprecated

RequestTypes(schema) ==
    Range(get_requests_from_union(schema, "ClientRequest"))
    \cup Range(get_requests_from_union(schema, "ServerRequest"))

NotificationTypes(schema) ==
    Range(get_requests_from_union(schema, "ClientNotification"))
    \cup Range(get_requests_from_union(schema, "ServerNotification"))

\* A pass has returned: Python runs the passes one after another, so each
\* later pass starts from the finished result of the one before.
Returned(pass) == pass.n >= 0

\* The seven passes in main's order, each on the document the previous left:
\* [m |-> the document, n |-> total_changes, changes |-> the count of each pass].
SyncAll(manifest, schema, schema_ts, swift_types, spec_methods, spec_notifications, dry_run) ==
    LET Counted(acc, category, pass) ==
            CASE Returned(pass) ->
                 [m |-> pass.m, n |-> acc.n + pass.n,
                  changes |-> [acc.changes EXCEPT ![category] = pass.n]]
        Types(acc) ==
            CASE Returned(acc) ->
                 Counted(acc, "types",
                         sync_types(acc.m, extract_types(schema), swift_types,
                                    build_spec_to_swift_mapping(swift_types), dry_run))
        Methods(acc) ==
            CASE Returned(acc) ->
                 Counted(acc, "methods", sync_methods(acc.m, spec_methods, dry_run))
        Notifications(acc) ==
            CASE Returned(acc) ->
                 Counted(acc, "notifications",
                         sync_notifications(acc.m, spec_notifications, dry_run))
        Enums(acc) ==
            CASE Returned(acc) ->
                 Counted(acc, "enums", sync_enums(acc.m, extract_enums(schema), dry_run))
        ErrorCodes(acc) ==
            CASE Returned(acc) ->
                 Counted(acc, "error_codes",
                         sync_error_codes(acc.m, extract_error_codes(schema_ts), dry_run))
        Capabilities(acc) ==
            CASE Returned(acc) ->
                 Counted(acc, "capabilities",
                         sync_capabilities(acc.m, extract_capabilities(schema, "ClientCapabilities"),
                                           extract_capabilities(schema, "ServerCapabilities"),
                                           dry_run))
        Deprecated(acc) ==
            CASE Returned(acc) ->
                 Counted(acc, "deprecated",
                         sync_deprecated(acc.m, extract_deprecated(schema), dry_run))
    IN Deprecated(Capabilities(ErrorCodes(Enums(Notifications(Methods(Types(
           [m |-> manifest, n |-> 0,
            changes |-> [types |-> 0, methods |-> 0, notifications |-> 0, enums |-> 0,
                         error_codes |-> 0, capabilities |-> 0, deprecated |-> 0]])))))))

\* main of sync-manifest.py: repo is the checkout beside the SDK;
\* request_order and notification_order are the orders in which this process
\* iterates the two sets of type names.
sync_manifest_main(file, repo, tool, dry_run, request_order, notification_order) ==
    LET r0 == RunRecord("sync", dry_run, file)
        r1 == [r0 EXCEPT !.loaded = TRUE]
        category_empty == \E t \in RequestTypes(repo.schema) :
                             LET method_name == extract_method_name(repo.schema, t)
                             IN method_name # None
                                /\ to_client_handler_name(method_name) = IndexError
        Synced(r2, done) == [r2 EXCEPT !.doc = done.m,
                                       !.changes = done.changes,
                                       !.wrote = TotalChanges(done.changes) > 0 /\ ~dry_run]
        Loaded(spec_methods, spec_notifications) ==
            Synced([r1 EXCEPT !.spec_methods = spec_methods,
                              !.spec_notifications = spec_notifications,
                              !.spec_types = extract_types(repo.schema),
                              !.spec_deprecated = extract_deprecated(repo.schema)],
                   SyncAll(file, repo.schema, repo.schema_ts, extract_swift_types(tool),
                           spec_methods, spec_notifications, dry_run))
    IN IF SyncProtocolVersion \notin repo.versions THEN [r0 EXCEPT !.exit = 1]
       ELSE IF category_empty THEN Raise(r1, "IndexError")
       ELSE Loaded(load_spec_methods(repo.schema, request_order),
                   load_spec_notifications(repo.schema, notification_order))

(***************************************************************************)
(* utils/reset-verification.py                                             *)
(***************************************************************************)
\* reset_block: the block afterwards.
reset_block(v) ==
    LET v1 == IF Get(v, "status", None) # "pending" THEN Put(v, "status", "pending") ELSE v
    IN IF Get(v1, "notes", "") # "" THEN Put(v1, "notes", "") ELSE v1

\* if v := entry.get("verification"): an absent or empty block is skipped.
HasBlock(entry) == Has(entry, "verification") /\ entry["verification"] # <<>>

ResetEntry(entry) ==
    IF HasBlock(entry) THEN Put(entry, "verification", reset_block(entry["verification"]))
    ELSE entry

ResetList(list) == [i \in DOMAIN list |-> ResetEntry(list[i])]

ResetModule(module) ==
    LET m1 == ResetEntry(module)
        m2 == IF Has(m1, "methods") THEN Put(m1, "methods", ResetList(m1["methods"])) ELSE m1
    IN IF Has(m2, "notifications") THEN Put(m2, "notifications", ResetList(m2["notifications"]))
       ELSE m2

\* The blocks the walk of reset_verification visits: modules, their methods
\* and notifications, and the types.
VisitedEntries(data) ==
    LET modules == ModulesOf(data)
        types   == TypesOf(data)
    IN modules \o EntriesFrom(modules, "methods") \o EntriesFrom(modules, "notifications")
       \o [i \in 1..Cardinality(DOMAIN types) |-> types[Sorted(DOMAIN types)[i]]]

\* [data |-> the document afterwards, count |-> the blocks changed].  The
\* blocks are rewritten whether or not dry_run is set.
reset_verification(data) ==
    LET d1 == IF Has(data, "modules")
              THEN Put(data, "modules", [i \in DOMAIN data["modules"] |-> ResetModule(data["modules"][i])])
              ELSE data
        d2 == IF Has(d1, "types")
              THEN Put(d1, "types", [t \in DOMAIN d1["types"] |-> ResetEntry(d1["types"][t])])
              ELSE d1
        visited == VisitedEntries(data)
    IN [data  |-> d2,
        count |-> Cardinality({i \in DOMAIN visited : ResetEntry(visited[i]) # visited[i]})]

\* main of reset-verification.py; the verification it runs is the runner
\* with --skip-clone on the file just written.
reset_verification_main(file, repo, sdk, tool, cache, dry_run, skip_verify, clone_ok) ==
    LET r0 == [RunRecord("reset", dry_run, file) EXCEPT !.loaded = TRUE]
        Reset(rv) == [r0 EXCEPT !.doc = rv.data, !.count = rv.count, !.wrote = ~dry_run]
        Verified(r1, v) ==
            [r1 EXCEPT !.printed = v.printed, !.results = v.results, !.cloned = v.cloned,
                       !.skip_clone = v.skip_clone, !.cache_before = v.cache_before,
                       !.cache_written = v.cache_written, !.temp_made = v.temp_made,
                       !.temp_dir = v.temp_dir, !.temp_exists = v.temp_exists,
                       !.exit = IF v.exit = 0 THEN 0 ELSE 1]
        Main(r1) ==
            IF dry_run \/ skip_verify THEN r1
            ELSE Verified(r1, verify_main(r1.doc, repo, sdk, tool, cache, TRUE, clone_ok))
    IN Main(Reset(reset_verification(file)))

(***************************************************************************)
(* The inputs the tools are run on.                                        *)
(***************************************************************************)
RequestDef(method) == [properties |-> [method |-> [const |-> method]]]

UnionDef(names) == [anyOf |-> [i \in DOMAIN names |-> ("$ref" :> ("#/$defs/" \o names[i]))]]

\* A schema with one request and one notification in each direction, two
\* plain types, an enum, a deprecated type and both capability objects.
BaseDefs ==
    [Foo |-> [description |-> "A plain type."],
     Error |-> [description |-> "An error."],
     Role |-> [enum |-> <<"user", "assistant">>],
     OldThing |-> [description |-> "Deprecated: use Foo."],
     ClientCapabilities |->
        [properties |-> [roots |-> [properties |-> [listChanged |-> [type |-> "boolean"]]]]],
     ServerCapabilities |-> [properties |-> [tools |-> [type |-> "object"]]],
     ClientRequest |-> UnionDef(<<"ListToolsRequest">>),
     ServerRequest |-> UnionDef(<<"ListRootsRequest">>),
     ClientNotification |-> UnionDef(<<"InitializedNotification">>),
     ServerNotification |-> UnionDef(<<"ProgressNotification">>),
     ListToolsRequest |-> RequestDef("tools/list"),
     ListRootsRequest |-> RequestDef("roots/list"),
     InitializedNotification |-> RequestDef("notifications/initialized"),
     ProgressNotification |-> RequestDef("notifications/progress")]

\* The same, with the method ping declared by one request type of each union
\* (and ListRootsRequest in neither).
SharedDefs ==
    Put(Put(Put(Put(BaseDefs,
        "ClientRequest", UnionDef(<<"ListToolsRequest", "ClientPingRequest">>)),
        "ServerRequest", UnionDef(<<"ServerPingRequest">>)),
        "ClientPingRequest", RequestDef("ping")),
        "ServerPingRequest", RequestDef("ping"))

\* BaseDefs with the method ping declared by one request type that is a
\* member of both request unions.
DuplexDefs ==
    Put(Put(Put(BaseDefs,
        "ClientRequest", UnionDef(<<"ListToolsRequest", "PingRequest">>)),
        "ServerRequest", UnionDef(<<"ListRootsRequest", "PingRequest">>)),
        "PingRequest", RequestDef("ping"))

GrownDefs ==
    Put(Put(Put(Put(Put(BaseDefs,
        "ClientRequest", UnionDef(<<"ListToolsRequest", "ListResourcesRequest",
                                    "ReadResourceRequest">>)),
        "ServerNotification", UnionDef(<<"ProgressNotification",
                                         "ResourceUpdatedNotification">>)),
        "ListResourcesRequest", RequestDef("resources/list")),
        "ReadResourceRequest", RequestDef("resources/read")),
        "ResourceUpdatedNotification", RequestDef("notifications/resources/updated"))

\* renumbered: BaseDefs, in a release of the specification whose schema.ts
\* gives PARSE_ERROR another value.
\* extended, reduced: BaseDefs with a Role enum that has one value more, or
\* one value less, than the SDK's Role.
\* legacy: BaseDefs with a type and a request announced as going away, and
\* a result type.
\* grown: BaseDefs with two requests and a notification of a resources
\* feature that the manifests below have no module for.
SchemaTags == {"base", "shared", "duplex", "renumbered", "extended", "reduced", "legacy",
               "grown"}

SchemaOf(tag) ==
    ("$defs" :> (CASE tag = "shared" -> SharedDefs
                   [] tag = "duplex" -> DuplexDefs
                   [] tag = "extended" ->
                        Put(BaseDefs, "Role", [enum |-> <<"user", "assistant", "system">>])
                   [] tag = "reduced" -> Put(BaseDefs, "Role", [enum |-> <<"user">>])
                   [] tag = "legacy" ->
                        Put(Put(Put(BaseDefs,
                            "LegacyThing", [description |-> "This type Will Be Removed soon."]),
                            "OldRequest", [description |-> "DEPRECATED request."]),
                            "FooResult", [description |-> "A result."])
                   [] tag = "grown" -> GrownDefs
                   [] OTHER -> BaseDefs))

SchemaTs == [exists |-> TRUE, lines |-> <<"export const PARSE_ERROR = -32700;">>]

RenumberedTs == [exists |-> TRUE, lines |-> <<"export const PARSE_ERROR = -32701;">>]

VersionTags == {"present", "absent"}

RepoOf(schemaTag, versionTag) ==
    [versions  |-> IF versionTag = "present" THEN {DEFAULT_PROTOCOL_VERSION} ELSE {},
     schema    |-> SchemaOf(schemaTag),
     schema_ts |-> IF schemaTag = "renumbered" THEN RenumberedTs ELSE SchemaTs]

TypesSwift == "Sources/MCP/Base/Types.swift"

LifecycleSwift == "Sources/MCP/Base/Lifecycle.swift"

SdkTags == {"full", "partial", "bare", "shallow", "guarded"}

\* full: everything the manifests below name exists; partial: Lifecycle.swift
\* is gone (it declares nothing the manifests name); bare: no source file at
\* all; shallow: full, but Client.swift declares roots without listChanged;
\* guarded: full, but in Client.swift listTools is private and
\* withRootsHandler occurs only inside comments.
SdkOf(tag) ==
    LET client == "public func listTools() {}\nfunc withRootsHandler() {}\nvar roots: Roots?\nvar listChanged: Bool\nstruct Capabilities {}"
        server == "public func listRoots() {}\nfunc sendProgress() {}\nvar tools: Tools?"
        errors == "enum MCPError {}\ncase .parseError: return -32700"
        types  == "public enum Role: String {\n case user\n case assistant\n}\nstruct Foo {}\nstruct Error {}"
        rootsOnly == "public func listTools() {}\nfunc withRootsHandler() {}\nvar roots: Roots?\nstruct Capabilities {}"
        hidden == "private func listTools() {}\n// func withRootsHandler() {}\n/* func withRootsHandler() {} */\nvar roots: Roots?\nvar listChanged: Bool\nstruct Capabilities {}"
    IN CASE tag = "full" ->
              (ClientSwift :> client) @@ (ServerSwift :> server) @@ (ErrorSwift :> errors)
              @@ (TypesSwift :> types) @@ (LifecycleSwift :> "extension Client {}")
         [] tag = "partial" ->
              (ClientSwift :> client) @@ (ServerSwift :> server) @@ (ErrorSwift :> errors)
              @@ (TypesSwift :> types)
         [] tag = "shallow" ->
              (ClientSwift :> rootsOnly) @@ (ServerSwift :> server) @@ (ErrorSwift :> errors)
              @@ (TypesSwift :> types) @@ (LifecycleSwift :> "extension Client {}")
         [] tag = "guarded" ->
              (ClientSwift :> hidden) @@ (ServerSwift :> server) @@ (ErrorSwift :> errors)
              @@ (TypesSwift :> types) @@ (LifecycleSwift :> "extension Client {}")
         [] OTHER -> <<>>

ToolTags == {"ok", "absent", "timeout"}

\* What the extractor prints for each declaration of the SDK's sources.
Declarations ==
    <<"Foo:struct:Sources/MCP/Base/Types.swift:5",
      "Role:enum:Sources/MCP/Base/Types.swift:1",
      "Role.user:case:Sources/MCP/Base/Types.swift:2",
      "Error:struct:Sources/MCP/Base/Types.swift:6",
      "MCPError:enum:Sources/MCP/Base/Error.swift:1",
      "Client.Capabilities:struct:Sources/MCP/Client/Client.swift:5">>

RECURSIVE DeclaredIn(_, _)
DeclaredIn(lines, files) ==
    IF lines = <<>> THEN <<>>
    ELSE (IF Split(Head(lines), ":")[3] \in DOMAIN files THEN <<Head(lines)>> ELSE <<>>)
         \o DeclaredIn(Tail(lines), files)

\* ok: the extractor lists the declarations of the files the SDK has, Error
\* and MCPError among them; absent: extractors/swift does not exist;
\* timeout: the extractor hangs.
ToolOf(tag, files) ==
    [dir    |-> tag # "absent",
     status |-> IF tag = "timeout" THEN "timeout" ELSE "ok",
     stdout |-> DeclaredIn(Declarations, files)]

Block(status, notes) == [status |-> status, notes |-> notes]

ModuleEntry(id, swift_file, methods, notifications, block) ==
    [id |-> id, category |-> "feature", description |-> "The " \o id \o " module",
     swift_file |-> swift_file, methods |-> methods, notifications |-> notifications,
     verification |-> block]

\* A manifest that documents BaseDefs and names only what the full SDK has.
\* `b` is the verification block of its entries, `cap_status` the status
\* recorded on the roots capability.
DocumentedManifest(b, cap_status) ==
    [target_protocol_version |-> DEFAULT_PROTOCOL_VERSION,
     modules |->
        <<ModuleEntry("tools", ClientSwift,
             <<[name |-> "tools/list", swift |-> "ListTools", client_method |-> "listTools",
                verification |-> b]>>, <<>>, b),
          ModuleEntry("roots", ServerSwift,
             <<[name |-> "roots/list", swift |-> "ListRoots", server_method |-> "listRoots",
                client_handler |-> "withRootsHandler", verification |-> b]>>, <<>>, b),
          ModuleEntry("lifecycle", LifecycleSwift, <<>>,
             <<[name |-> "notifications/initialized", swift |-> "InitializedNotification",
                sender |-> "client", client_send |-> "notify", verification |-> b],
               [name |-> "notifications/progress", swift |-> "ProgressNotification",
                sender |-> "server", server_send |-> "sendProgress", verification |-> b]>>, b)>>,
     types |->
        [Foo |-> [swift |-> "Foo", file |-> TypesSwift, verification |-> b],
         Error |-> [swift |-> "MCPError", file |-> ErrorSwift, verification |-> b],
         Role |-> [swift |-> "Role", file |-> TypesSwift, verification |-> b],
         ClientCapabilities |-> [swift |-> "Client.Capabilities", file |-> ClientSwift,
                                 verification |-> b],
         ServerCapabilities |-> [swift |-> "Server.Capabilities", file |-> ServerSwift,
                                 implementation |-> "todo", verification |-> b]],
     enums |-> <<[name |-> "Role", swift |-> "Role", file |-> TypesSwift,
                  cases |-> <<[spec |-> "assistant", swift |-> "assistant"],
                              [spec |-> "user", swift |-> "user"]>>,
                  verification |-> b]>>,
     error_codes |-> <<[name |-> "PARSE_ERROR", code |-> -32700, category |-> "jsonrpc",
                        swift |-> "parseError", verification |-> b]>>,
     capabilities |->
        [client |-> <<[property |-> "roots", swift |-> "roots",
                       nested |-> <<[name |-> "listChanged", swift |-> "listChanged"]>>,
                       verification |-> Block(cap_status, b.notes)]>>,
         server |-> <<[property |-> "tools", swift |-> "tools", nested |-> <<>>,
                       verification |-> b]>>],
     deprecated |-> <<[name |-> "OldThing", replacement |-> "Foo", notes |-> "Deprecated."]>>]

\* The tasks module a reviewer has marked as planned work: nothing it names
\* exists in any SDK above.
PlannedModule ==
    [id |-> "tasks", category |-> "feature", description |-> "The tasks module",
     swift_file |-> "Sources/MCP/Base/Tasks.swift", implementation |-> "todo",
     methods |-> <<[name |-> "tasks/get", swift |-> "GetTask", implementation |-> "todo",
                    client_method |-> "getTask", verification |-> Block("critical", "planned")]>>,
     notifications |-> <<[name |-> "notifications/tasks/status", swift |-> "TaskStatusNotification",
                          implementation |-> "todo", sender |-> "server",
                          server_send |-> "sendTaskStatus",
                          verification |-> Block("critical", "planned")]>>,
     verification |-> Block("info", "planned")]

ManifestTags == {"clean", "empty", "partial", "reviewed", "staged"}

\* clean: DocumentedManifest, nothing reviewed yet.  empty: no section at
\* all.  partial: entries that lack fields, enum cases and nested properties
\* the schema has, some already reviewed.  reviewed: clean, with review
\* results recorded on every block and the planned tasks module added.
\* staged: clean, with the planned tasks module added and a Task type, not
\* flagged as planned, that names the module's file.
ManifestOf(tag) ==
    CASE tag = "clean" -> DocumentedManifest(Block("pending", ""), "pending")
      [] tag = "empty" -> [target_protocol_version |-> DEFAULT_PROTOCOL_VERSION]
      [] tag = "partial" ->
           [target_protocol_version |-> DEFAULT_PROTOCOL_VERSION,
            modules |->
               <<ModuleEntry("tools", ClientSwift,
                    <<[name |-> "tools/list", swift |-> "ListTools",
                       verification |-> Block("fixed", "checked")]>>,
                    <<[name |-> "notifications/progress", swift |-> "Progress",
                       verification |-> Block("pending", "")]>>,
                    Block("info", "reviewed"))>>,
            types |-> [Foo |-> [swift |-> "Foo", file |-> TypesSwift,
                                verification |-> Block("fixed", "ok")]],
            enums |-> <<[name |-> "Role", swift |-> "Role", file |-> TypesSwift,
                         cases |-> <<[spec |-> "user", swift |-> "user"]>>,
                         verification |-> Block("warning", "one case")]>>,
            capabilities |->
               [client |-> <<[property |-> "roots", swift |-> "roots",
                              verification |-> Block("fixed", "")]>>]]
      [] tag = "staged" ->
           LET d == DocumentedManifest(Block("pending", ""), "pending")
           IN Put(Put(d, "modules", Append(d["modules"], PlannedModule)),
                  "types", Put(d["types"], "Task",
                               [swift |-> "Task", file |-> PlannedModule["swift_file"],
                                verification |-> Block("pending", "")]))
      [] OTHER ->
           LET d == DocumentedManifest(Block("fixed", "reviewed"), "missing")
           IN Put(d, "modules", Append(d["modules"], PlannedModule))

(***************************************************************************)
(* The state machine: the three tools run, one process at a time, on one   *)
(* manifest file.  The schema repository (the checkout beside the SDK and  *)
(* the upstream that is cloned hold the same files), the SDK sources and   *)
(* the extractor do not change between runs.                              *)
(***************************************************************************)
VARIABLES
    file,   \* manifest.yaml as persisted
    repo,   \* the specification repository
    sdk,    \* the Swift SDK's source files
    tool,   \* the AST extractor
    cache,  \* whether /tmp/mcp-spec-cache exists
    runs    \* the processes that have run, oldest first

vars == <<file, repo, sdk, tool, cache, runs>>

\* How many processes a behaviour runs.
MaxRuns == 2

\* How many of the inputs differ from the documented, fully implemented
\* project (clean manifest, base schema at the default version, full SDK,
\* working extractor, no cache).
MaxVaried == 1

Varied(schemaTag, versionTag, sdkTag, toolTag, manifestTag, cached) ==
    (IF schemaTag = "base" THEN 0 ELSE 1) + (IF versionTag = "present" THEN 0 ELSE 1)
    + (IF sdkTag = "full" THEN 0 ELSE 1) + (IF toolTag = "ok" THEN 0 ELSE 1)
    + (IF manifestTag = "clean" THEN 0 ELSE 1) + (IF cached THEN 1 ELSE 0)

\* A project just begun: the SDK has no source file yet and the manifest no
\* section; everything else is as documented.
JustBegun(schemaTag, versionTag, sdkTag, toolTag, manifestTag, cached) ==
    /\ sdkTag = "bare" /\ manifestTag = "empty"
    /\ Varied(schemaTag, versionTag, "full", toolTag, "clean", cached) = 0

Init ==
    \E schemaTag \in SchemaTags, versionTag \in VersionTags, sdkTag \in SdkTags,
       toolTag \in ToolTags, manifestTag \in ManifestTags, cached \in BOOLEAN :
       /\ \/ Varied(schemaTag, versionTag, sdkTag, toolTag, manifestTag, cached) <= MaxVaried
          \/ JustBegun(schemaTag, versionTag, sdkTag, toolTag, manifestTag, cached)
       /\ file = ManifestOf(manifestTag)
       /\ repo = RepoOf(schemaTag, versionTag)
       /\ sdk = SdkOf(sdkTag)
       /\ tool = ToolOf(toolTag, SdkOf(sdkTag))
       /\ cache = cached
       /\ runs = <<>>

\* uv run sync-manifest.py [--dry-run]
SyncRun(dry_run) ==
    /\ Len(runs) < MaxRuns
    /\ \E request_order \in IterationOrders(RequestTypes(repo.schema)),
          notification_order \in IterationOrders(NotificationTypes(repo.schema)) :
          \E r \in {sync_manifest_main(file, repo, tool, dry_run,
                                        request_order, notification_order)} :
             /\ runs' = Append(runs, r)
             /\ file' = IF r.wrote THEN r.doc ELSE file
    /\ UNCHANGED <<repo, sdk, tool, cache>>

\* uv run verify-protocol-coverage.py [--skip-clone]; a clone that succeeds
\* replaces the cache.
VerifyRun(skip_clone, clone_ok) ==
    /\ Len(runs) < MaxRuns
    /\ \E r \in {verify_main(file, repo, sdk, tool, cache, skip_clone, clone_ok)} :
          /\ runs' = Append(runs, r)
          /\ cache' = (cache \/ (r.cloned /\ clone_ok))
    /\ UNCHANGED <<file, repo, sdk, tool>>

\* uv run reset-verification.py [--dry-run] [--skip-verify]
ResetRun(dry_run, skip_verify, clone_ok) ==
    /\ Len(runs) < MaxRuns
    /\ \E r \in {reset_verification_main(file, repo, sdk, tool, cache,
                                             dry_run, skip_verify, clone_ok)} :
          /\ runs' = Append(runs, r)
          /\ file' = IF r.wrote THEN r.doc ELSE file
          /\ cache' = (cache \/ (r.cloned /\ clone_ok))
    /\ UNCHANGED <<repo, sdk, tool>>

Next ==
    \/ \E dry_run \in BOOLEAN : SyncRun(dry_run)
    \/ \E skip_clone \in BOOLEAN, clone_ok \in BOOLEAN : VerifyRun(skip_clone, clone_ok)
    \/ \E dry_run \in BOOLEAN, skip_verify \in BOOLEAN, clone_ok \in BOOLEAN :
          ResetRun(dry_run, skip_verify, clone_ok)

Spec == Init /\ [][Next]_vars

\* The method names the derivation is applied to: each action verb of the
\* structural rule, an action it does not know, a category that is not a
\* plural, names of the exception table, a name without "/" and one with an
\* empty category.
MethodNames ==
    {"resources/list", "resources/read", "resources/subscribe", "resources/unsubscribe",
     "prompts/get", "tools/call", "prompts/render", "logging/get",
     "logging/setLevel", "sampling/createMessage", "resources/templates/list",
     "initialize", "/list"}

\* BaseDefs with one client request, NamedRequest, that declares `method`.
NamedDefs(method) ==
    Put(Put(BaseDefs, "ClientRequest", UnionDef(<<"NamedRequest">>)),
        "NamedRequest", RequestDef(method))

\* The documented project, against a schema that declares one of MethodNames.
NamesInit ==
    \E method \in MethodNames :
       /\ file = ManifestOf("clean")
       /\ repo = [versions |-> {DEFAULT_PROTOCOL_VERSION},
                  schema |-> ("$defs" :> NamedDefs(method)), schema_ts |-> SchemaTs]
       /\ sdk = SdkOf("full")
       /\ tool = ToolOf("ok", SdkOf("full"))
       /\ cache = FALSE
       /\ runs = <<>>

NamesSpec == NamesInit /\ [][Next]_vars

(***************************************************************************)
(* Properties of the runs.                                                 *)
(***************************************************************************)
\* An apply-mode synchronizer run that reached its end.
IsApplySync(r) == r.cmd = "sync" /\ ~r.dry_run /\ r.loaded /\ r.raised = None

\* A reconciliation run that reached its summary.
IsCompletedVerify(r) == r.cmd = "verify" /\ r.raised = None

\* Positions i such that runs[i] and runs[i+1] are consecutive processes.
Pairs == {i \in 1..Len(runs) : i + 1 <= Len(runs)}

\* C1: an apply-mode synchronizer run that directly follows another one, on
\* the manifest the first left and with the same schema and index, makes no
\* change at all (total change count 0) and leaves the manifest as it found it.
C1_SyncIdempotent ==
    \A i \in Pairs :
        IsApplySync(runs[i]) /\ IsApplySync(runs[i + 1])
        => /\ TotalChanges(runs[i + 1].changes) = 0
           /\ runs[i + 1].doc = runs[i + 1].before

\* The six Spec->Manifest gap counts of a summary, added up.
SpecManifestGaps(results) ==
    results.types_spec_manifest + results.methods_spec_manifest
    + results.notifs_spec_manifest + results.enums_spec_manifest
    + results.errors_spec_manifest + results.caps_spec_manifest

\* C2: a reconciliation run that directly follows an apply-mode synchronizer
\* run, against the same schema, reports a Spec->Manifest gap count of 0 for
\* types, methods, notifications, enums, error codes and capabilities.
C2_SyncClosesSpecGaps ==
    \A i \in Pairs :
        IsApplySync(runs[i]) /\ IsCompletedVerify(runs[i + 1])
        => /\ runs[i + 1].results.types_spec_manifest = 0
           /\ runs[i + 1].results.methods_spec_manifest = 0
           /\ runs[i + 1].results.notifs_spec_manifest = 0
           /\ runs[i + 1].results.enums_spec_manifest = 0
           /\ runs[i + 1].results.errors_spec_manifest = 0
           /\ runs[i + 1].results.caps_spec_manifest = 0

\* C2 witness: the synchronizer added the type Foo (and more) to a manifest
\* that lacked it, and the reconciliation that followed finished with no
\* Spec->Manifest gap.
C2_Witness ==
    \E i \in Pairs :
        /\ IsApplySync(runs[i]) /\ runs[i].wrote
        /\ ~Has(TypesOf(runs[i].before), "Foo") /\ Has(TypesOf(runs[i].doc), "Foo")
        /\ runs[i].changes.methods > 0 /\ runs[i].changes.capabilities > 0
        /\ IsCompletedVerify(runs[i + 1])
        /\ SpecManifestGaps(runs[i + 1].results) = 0

\* Every field of `old` except those in `growing` is in `new` with its value.
FieldsKept(old, new, growing) ==
    \A f \in (DOMAIN old) \ growing : f \in DOMAIN new /\ new[f] = old[f]

\* `new` has every item of the list `old`, at its place, as Kept allows.
ListKept(old, new, Kept(_, _)) ==
    Len(old) <= Len(new) /\ \A i \in DOMAIN old : Kept(old[i], new[i])

Same(old, new) == new = old

EntryKept(old, new) == FieldsKept(old, new, {})

\* old[list] survives in new[list], where old has that list.
GrownKept(old, new, list, Kept(_, _)) ==
    list \in DOMAIN old => list \in DOMAIN new /\ ListKept(old[list], new[list], Kept)

ModuleKept(old, new) ==
    /\ FieldsKept(old, new, {"methods", "notifications"})
    /\ GrownKept(old, new, "methods", EntryKept)
    /\ GrownKept(old, new, "notifications", EntryKept)

EnumKept(old, new) == FieldsKept(old, new, {"cases"}) /\ GrownKept(old, new, "cases", Same)

CapabilityKept(old, new) == FieldsKept(old, new, {"nested"}) /\ GrownKept(old, new, "nested", Same)

\* Everything manifest `old` holds is still in `new`: sections, entries and
\* the values of their fields; lists may only have grown at the end.
ManifestKept(old, new) ==
    /\ FieldsKept(old, new, {"modules", "types", "enums", "error_codes", "capabilities", "deprecated"})
    /\ GrownKept(old, new, "modules", ModuleKept)
    /\ "types" \in DOMAIN old =>
          /\ "types" \in DOMAIN new
          /\ \A t \in DOMAIN old["types"] :
                t \in DOMAIN new["types"] /\ EntryKept(old["types"][t], new["types"][t])
    /\ GrownKept(old, new, "enums", EnumKept)
    /\ GrownKept(old, new, "error_codes", EntryKept)
    /\ "capabilities" \in DOMAIN old =>
          /\ "capabilities" \in DOMAIN new
          /\ GrownKept(old["capabilities"], new["capabilities"], "client", CapabilityKept)
          /\ GrownKept(old["capabilities"], new["capabilities"], "server", CapabilityKept)
    /\ GrownKept(old, new, "deprecated", EntryKept)

\* C3: an apply-mode synchronizer run keeps every entry the manifest had
\* (types, modules, methods, notifications, enums, error codes,
\* capabilities, deprecated items) and the value of every field they had; it
\* only adds entries and fields and appends enum cases and nested properties.
C3_SyncAdditiveOnly ==
    \A i \in 1..Len(runs) :
        IsApplySync(runs[i]) => ManifestKept(runs[i].before, runs[i].doc)

\* C3 witness: an apply-mode run has filled fields into a method the
\* manifest already had, appended a case to an enum it already had and a
\* nested property to a capability it already had, and written the file.
C3_Witness ==
    \E i \in 1..Len(runs) :
        LET old == runs[i].before
            new == runs[i].doc
        IN /\ IsApplySync(runs[i]) /\ runs[i].wrote /\ file = new
           /\ Has(old, "modules") /\ Has(old, "enums") /\ Has(old, "capabilities")
           /\ \E p \in DOMAIN old["modules"] :
                 \E q \in DOMAIN old["modules"][p]["methods"] :
                    DOMAIN new["modules"][p]["methods"][q] # DOMAIN old["modules"][p]["methods"][q]
           /\ \E e \in DOMAIN old["enums"] :
                 Len(new["enums"][e]["cases"]) > Len(old["enums"][e]["cases"])
           /\ \E c \in DOMAIN old["capabilities"]["client"] :
                 /\ ~Has(old["capabilities"]["client"][c], "nested")
                 /\ Has(new["capabilities"]["client"][c], "nested")

\* A synchronizer run with --dry-run that reached its end.
IsPreviewSync(r) == r.cmd = "sync" /\ r.dry_run /\ r.loaded /\ r.raised = None

\* C4: a synchronizer run with --dry-run leaves the manifest as it found it:
\* its in-memory document gains no section (not even an empty one), module,
\* entry or field, and the file is not written.
C4_PreviewMutatesNothing ==
    \A i \in 1..Len(runs) :
        IsPreviewSync(runs[i]) => runs[i].doc = runs[i].before /\ ~runs[i].wrote

\* The six Manifest->Implementation missing counts of a summary, added up.
ImplementationMissing(results) ==
    results.types_swift_missing + results.methods_swift_missing
    + results.notifs_swift_missing + results.enums_swift_missing
    + results.errors_swift_missing + results.caps_swift_missing

\* C5 as stated: the runner exits 0 exactly when the six Spec->Manifest gap
\* counts and the six Manifest->Implementation missing counts add up to
\* zero, and 1 otherwise.
C5_ExitIffNoCategoryGaps ==
    \A i \in 1..Len(runs) :
        IsCompletedVerify(runs[i])
        => /\ runs[i].exit \in {0, 1}
           /\ runs[i].exit = 0
              <=> SpecManifestGaps(runs[i].results) + ImplementationMissing(runs[i].results) = 0

\* C5, amended: the runner exits 0 exactly when the missing-file errors of
\* the file validation, the six Spec->Manifest gap counts and the six
\* Manifest->Implementation missing counts add up to zero, and 1 otherwise.
C5_ExitIffNoGapsNorFileErrors ==
    \A i \in 1..Len(runs) :
        IsCompletedVerify(runs[i])
        => /\ runs[i].exit \in {0, 1}
           /\ runs[i].exit = 0
              <=> runs[i].results.file_errors + SpecManifestGaps(runs[i].results)
                  + ImplementationMissing(runs[i].results) = 0

\* C5 witness: a reconciliation that found every fact of every category but
\* not a file the manifest names, and exited 1.
C5_Witness ==
    \E i \in 1..Len(runs) :
        /\ IsCompletedVerify(runs[i])
        /\ runs[i].results.file_errors > 0
        /\ SpecManifestGaps(runs[i].results) + ImplementationMissing(runs[i].results) = 0
        /\ runs[i].results.types_swift_found > 0
        /\ runs[i].exit = 1

\* The version whose schema a run asks for.
RequestedVersion(r) ==
    IF r.cmd = "sync" THEN SyncProtocolVersion
    ELSE Get(r.before, "target_protocol_version", DEFAULT_PROTOCOL_VERSION)

\* C6: when the schema of the requested version does not exist, a run of the
\* reconciliation runner or of the synchronizer that gets as far as asking
\* for it (the extractor and the clone have not failed it) ends with a
\* non-zero exit,
\* having produced no validation or reconciliation result (no such report
\* section, no count in its results) and without having changed the
\* manifest, in memory or on file.
C6_MissingSchemaNoPartialWork ==
    \A i \in 1..Len(runs) :
        /\ runs[i].cmd \in {"verify", "sync"}
        /\ RequestedVersion(runs[i]) \notin repo.versions
        /\ runs[i].raised \notin {"TimeoutExpired", "RuntimeError"}
        => /\ runs[i].exit # 0
           /\ Range(runs[i].printed) \cap ({FileSection} \cup Range(CheckSections)) = {}
           /\ runs[i].results = VerificationResults
           /\ runs[i].doc = runs[i].before
           /\ ~runs[i].wrote

\* An entry flagged not-yet-implemented or builtin.
IsFlagged(entry) == IsTodo(entry) \/ Get(entry, "kind", None) = "builtin"

NotFlagged(entry) == ~IsFlagged(entry)

\* The manifest without its flagged types, methods and notifications.
WithoutFlagged(manifest) ==
    LET unflagged(module, list) ==
            IF Has(module, list) THEN Put(module, list, SelectSeq(module[list], NotFlagged))
            ELSE module
        m1 == IF Has(manifest, "modules")
              THEN Put(manifest, "modules",
                       [i \in DOMAIN manifest["modules"] |->
                          unflagged(unflagged(manifest["modules"][i], "methods"), "notifications")])
              ELSE manifest
    IN IF Has(m1, "types")
       THEN Put(m1, "types", [t \in {u \in DOMAIN m1["types"] : NotFlagged(m1["types"][u])} |->
                                m1["types"][t]])
       ELSE m1

\* C7: entries flagged implementation: todo or builtin contribute nothing to
\* the Manifest->Implementation missing counts of types, methods and
\* notifications: each count is what the manifest without them gives.
C7_FlaggedNeverMissing ==
    \A i \in 1..Len(runs) :
        IsCompletedVerify(runs[i])
        => LET unflagged == WithoutFlagged(runs[i].before)
               index     == build_swift_type_index(sdk, tool)
           IN /\ runs[i].results.types_swift_missing
                 = check_manifest_to_swift(unflagged, index.types).errors
              /\ runs[i].results.methods_swift_missing
                 = check_method_implementations(unflagged, sdk).errors
              /\ runs[i].results.notifs_swift_missing
                 = check_notification_implementations(unflagged, sdk).errors

\* The entry with its verification block, if it has one, set to pending
\* with empty notes.
PendingEntry(entry) ==
    IF Has(entry, "verification") THEN Put(entry, "verification", Block("pending", "")) ELSE entry

\* d with the entries of its list d[key] (when it has one) set to pending.
PendingList(d, key) ==
    IF Has(d, key) THEN Put(d, key, [i \in DOMAIN d[key] |-> PendingEntry(d[key][i])]) ELSE d

\* The manifest that differs from `manifest` only in its verification
\* blocks, every one of which is pending with empty notes.
AllPending(manifest) ==
    LET m1 == IF Has(manifest, "modules")
              THEN Put(manifest, "modules",
                       [i \in DOMAIN manifest["modules"] |->
                          PendingList(PendingList(PendingEntry(manifest["modules"][i]),
                                                  "methods"), "notifications")])
              ELSE manifest
        m2 == IF Has(m1, "types")
              THEN Put(m1, "types", [t \in DOMAIN m1["types"] |-> PendingEntry(m1["types"][t])])
              ELSE m1
        m3 == PendingList(PendingList(m2, "enums"), "error_codes")
    IN IF Has(m3, "capabilities")
       THEN Put(m3, "capabilities", PendingList(PendingList(m3["capabilities"], "client"), "server"))
       ELSE m3

\* The per-category gap counts of a summary.
GapCounts(results) ==
    <<results.types_spec_manifest, results.methods_spec_manifest, results.notifs_spec_manifest,
      results.enums_spec_manifest, results.errors_spec_manifest, results.caps_spec_manifest,
      results.types_swift_missing, results.methods_swift_missing, results.notifs_swift_missing,
      results.enums_swift_missing, results.errors_swift_missing, results.caps_swift_missing>>

\* C8: verification status and notes do not influence the gap computation:
\* a reconciliation of the manifest that differs only in having every
\* verification block reset to pending / "" gives, for the same schema and
\* implementation, the same per-category gap counts and the same exit code.
C8_VerificationMetadataIgnored ==
    \A i \in 1..Len(runs) :
        IsCompletedVerify(runs[i])
        => LET again == run(AllPending(runs[i].before), repo, sdk, tool, cache, FALSE, TRUE)
           IN /\ GapCounts(again.results) = GapCounts(runs[i].results)
              /\ again.exit = runs[i].exit

\* A reset that was not a dry run: it wrote the document it had reset.
IsAppliedReset(r) == r.cmd = "reset" /\ ~r.dry_run /\ r.wrote

\* Every entry of the manifest that can carry a verification block: modules,
\* methods, notifications, types, enums, error codes and capabilities.
FactEntries(manifest) ==
    LET modules == ModulesOf(manifest)
        types   == TypesOf(manifest)
        caps    == Get(manifest, "capabilities", <<>>)
    IN Range(modules) \cup Range(EntriesFrom(modules, "methods"))
       \cup Range(EntriesFrom(modules, "notifications"))
       \cup {types[t] : t \in DOMAIN types}
       \cup Range(Get(manifest, "enums", <<>>)) \cup Range(Get(manifest, "error_codes", <<>>))
       \cup Range(Get(caps, "client", <<>>)) \cup Range(Get(caps, "server", <<>>))

\* C9: after a reset that is not a dry run, every module, method,
\* notification, type, enum, error code and capability that carries a
\* verification block has status pending and notes "", and nothing but
\* verification blocks differs from the manifest before the reset.
C9_ResetClearsEveryBlock ==
    \A i \in 1..Len(runs) :
        IsAppliedReset(runs[i])
        => /\ \A entry \in FactEntries(runs[i].doc) :
                 HasBlock(entry) => entry["verification"] = Block("pending", "")
           /\ AllPending(runs[i].doc) = AllPending(runs[i].before)

\* The symbols of the index from which the derivation rules give spec_name:
\* the name itself, a nested name flattened, a name with the JSONRPC prefix
\* added or the MCP prefix removed.
Candidates(spec_name, names) ==
    {n \in names :
        \/ n = spec_name
        \/ Contains(n, ".") /\ Replace(n, ".", "") = spec_name
        \/ ~StartsWith(n, "JSONRPC") /\ ~Contains(n, ".") /\ "JSONRPC" \o n = spec_name
        \/ StartsWith(n, "MCP") /\ Len(n) > 3 /\ Drop(n, 3) = spec_name}

\* C10: a type entry that an apply-mode synchronizer run adds names an index
\* symbol (notes: auto-discovered) only if that symbol is the one candidate
\* the index has for the spec name; with no candidate, or more than one, it
\* is the placeholder TODO_<specName> (notes: no match).
C10_UniqueCandidateOrPlaceholder ==
    \A i \in 1..Len(runs) :
        IsApplySync(runs[i])
        => LET old   == TypesOf(runs[i].before)
               new   == TypesOf(runs[i].doc)
               names == Range(extract_swift_types(tool).order)
           IN \A t \in (DOMAIN new) \ (DOMAIN old) :
                 LET c == Candidates(t, names)
                 IN IF Cardinality(c) = 1
                    THEN /\ new[t]["swift"] \in c
                         /\ new[t]["verification"]["notes"] = "Auto-discovered from Swift codebase"
                    ELSE /\ new[t]["swift"] = "TODO_" \o t
                         /\ new[t]["verification"]["notes"] = "No matching Swift type found"

\* A synchronizer run that loaded the schema facts.
IsLoadedSync(r) == r.cmd = "sync" /\ r.loaded /\ r.raised = None

\* The direction two membership tests give a type that is in a union.
UnionDirection(t, client_side, server_side) ==
    CASE t \in client_side /\ t \in server_side -> "bidirectional"
      [] t \in client_side -> "client_to_server"
      [] OTHER -> "server_to_client"

\* The direction a run derived for a type: the one it recorded under the
\* type's method constant ("" when it recorded none).
DerivedDirection(extracted, schema, t) ==
    LET method_name == extract_method_name(schema, t)
    IN IF Has(extracted, method_name) THEN extracted[method_name]["direction"] ELSE None

\* C11: for every request or notification type in at least one of the four
\* unions, the direction a synchronizer run derives is one of the four
\* values, and it is bidirectional, client_to_server or server_to_client
\* exactly when the type is in both unions, only the client-side one or only
\* the server-side one.
C11_DirectionTotalAndSymmetric ==
    \A i \in 1..Len(runs) :
        IsLoadedSync(runs[i])
        => /\ \A t \in RequestTypes(repo.schema) :
                 DerivedDirection(runs[i].spec_methods, repo.schema, t)
                 = UnionDirection(t, Range(get_requests_from_union(repo.schema, "ClientRequest")),
                                  Range(get_requests_from_union(repo.schema, "ServerRequest")))
           /\ \A t \in NotificationTypes(repo.schema) :
                 DerivedDirection(runs[i].spec_notifications, repo.schema, t)
                 = UnionDirection(t, Range(get_requests_from_union(repo.schema, "ClientNotification")),
                                  Range(get_requests_from_union(repo.schema, "ServerNotification")))

\* The definitions of the schema that carry a method constant.
MethodDefinitions(schema) ==
    {t \in DOMAIN SchemaDefs(schema) : extract_method_name(schema, t) # None}

\* C12: a definition with a method constant that is in neither the
\* client-side nor the server-side union is among the methods or
\* notifications a synchronizer run extracted, with direction unknown.
C12_UnclassifiedKeptAsUnknown ==
    \A i \in 1..Len(runs) :
        IsLoadedSync(runs[i])
        => \A t \in MethodDefinitions(repo.schema)
                    \ (RequestTypes(repo.schema) \cup NotificationTypes(repo.schema)) :
              \/ DerivedDirection(runs[i].spec_methods, repo.schema, t) = "unknown"
              \/ DerivedDirection(runs[i].spec_notifications, repo.schema, t) = "unknown"

\* The method entries of `new` whose names no method entry of `old` has.
AddedMethods(old, new) ==
    {e \in Range(EntriesFrom(ModulesOf(new), "methods")) :
        find_method_in_manifest(old, e["name"]) = <<0, 0>>}

\* C13: a method entry that an apply-mode synchronizer run adds has
\* client_method iff the direction the run derived is client_to_server or
\* bidirectional, server_method iff it is server_to_client or bidirectional,
\* and client_handler iff it is server_to_client.
C13_NewMethodFieldsFollowDirection ==
    \A i \in 1..Len(runs) :
        IsApplySync(runs[i])
        => \A e \in AddedMethods(runs[i].before, runs[i].doc) :
              LET direction == runs[i].spec_methods[e["name"]]["direction"]
              IN /\ Has(e, "client_method") <=> direction \in {"client_to_server", "bidirectional"}
                 /\ Has(e, "server_method") <=> direction \in {"server_to_client", "bidirectional"}
                 /\ Has(e, "client_handler") <=> direction = "server_to_client"

\* C13 witness: an apply-mode run added a bidirectional method, with both
\* invocation methods and no handler.
C13_Witness ==
    /\ \E i \in 1..Len(runs) :
          /\ IsApplySync(runs[i])
          /\ \E e \in AddedMethods(runs[i].before, runs[i].doc) :
                /\ runs[i].spec_methods[e["name"]]["direction"] = "bidirectional"
                /\ Has(e, "client_method") /\ Has(e, "server_method")
                /\ ~Has(e, "client_handler")

\* The error-code entries of the manifest that name a dedicated case.
DedicatedCodes(manifest) ==
    SelectSeq(Get(manifest, "error_codes", <<>>), LAMBDA c : Truthy(c, "swift"))

\* The dedicated entries whose case the implementation has, returning the
\* value the specification gives the code name.
MatchingSpecValue(manifest, spec_codes, swift_codes) ==
    LET codes == DedicatedCodes(manifest)
    IN {i \in DOMAIN codes :
          /\ Has(swift_codes, codes[i]["swift"])
          /\ Has(spec_codes, codes[i]["name"])
          /\ swift_codes[codes[i]["swift"]] = spec_codes[codes[i]["name"]]}

\* C14: in a completed reconciliation the error-code entries with a
\* dedicated case that count as found are those whose case returns the
\* specification's value for the code name; every other dedicated entry
\* counts as missing.  (Entries without a dedicated case count as found.)
C14_ErrorCodeMatchesSpecValue ==
    \A i \in 1..Len(runs) :
        IsCompletedVerify(runs[i])
        => LET manifest  == runs[i].before
               all       == Get(manifest, "error_codes", <<>>)
               dedicated == DedicatedCodes(manifest)
               matching  == MatchingSpecValue(manifest, extract_error_codes(repo.schema_ts),
                                              IF ErrorSwift \in DOMAIN sdk
                                              THEN SwiftCodes(sdk[ErrorSwift]) ELSE <<>>)
           IN /\ runs[i].results.errors_swift_missing = Len(dedicated) - Cardinality(matching)
              /\ runs[i].results.errors_swift_found
                 = Cardinality(matching) + (Len(all) - Len(dedicated))

\* Whether the source declares the entry's top-level property and every
\* nested property the entry names.
FullyDeclared(cap_entry, content) ==
    LET nested == Get(cap_entry, "nested", <<>>)
    IN /\ VarDeclared(Get(cap_entry, "swift", cap_entry["property"]), content)
       /\ \A i \in DOMAIN nested :
             VarDeclared(Get(nested[i], "swift", Get(nested[i], "name", None)), content)

\* The capability entries of one side that are not fully declared.
Partial(manifest, side, content) ==
    LET cap_list == Get(Get(manifest, "capabilities", <<>>), side, <<>>)
    IN {i \in DOMAIN cap_list : ~FullyDeclared(cap_list[i], content)}

\* The number of capability entries of the manifest.
CapabilityEntries(manifest) ==
    Len(Get(Get(manifest, "capabilities", <<>>), "client", <<>>))
    + Len(Get(Get(manifest, "capabilities", <<>>), "server", <<>>))

\* C15: in a completed reconciliation every capability entry counts once,
\* as found or as missing, and every entry whose top-level property or one
\* of whose nested properties the implementation lacks counts as missing.
C15_CapabilityTwoLevel ==
    \A i \in 1..Len(runs) :
        IsCompletedVerify(runs[i])
        => LET manifest == runs[i].before
               lacking  == Cardinality(Partial(manifest, "client", ReadText(sdk, ClientSwift)))
                           + Cardinality(Partial(manifest, "server", ReadText(sdk, ServerSwift)))
           IN /\ runs[i].results.caps_swift_found + runs[i].results.caps_swift_missing
                 = CapabilityEntries(manifest)
              /\ runs[i].results.caps_swift_missing >= lacking
              /\ runs[i].results.caps_swift_found <= CapabilityEntries(manifest) - lacking

\* C15 witness: a reconciliation counted the roots capability as missing
\* because the source declares roots but not its nested listChanged.
C15_Witness ==
    \E i \in 1..Len(runs) :
        /\ IsCompletedVerify(runs[i])
        /\ LET client == Get(Get(runs[i].before, "capabilities", <<>>), "client", <<>>)
           IN \E k \in DOMAIN client :
                 /\ VarDeclared(Get(client[k], "swift", client[k]["property"]),
                                ReadText(sdk, ClientSwift))
                 /\ ~FullyDeclared(client[k], ReadText(sdk, ClientSwift))
        /\ runs[i].results.caps_swift_missing = 1
        /\ runs[i].results.caps_swift_found = 1

\* The manifest enums that are in the spec and whose implementation enum is
\* found, with `lacking` telling whether a spec value is absent from the
\* implementation's case values.
ComparedEnums(manifest, schema, sources, lacking) ==
    LET enums == Get(manifest, "enums", <<>>)
        spec_enums == extract_enums(schema)
        cases(i) == extract_swift_enum_cases(sources, Get(enums[i], "swift", enums[i]["name"]))
    IN {i \in DOMAIN enums :
          /\ Has(spec_enums, enums[i]["name"])
          /\ cases(i) # <<>>
          /\ lacking = (Range(spec_enums[enums[i]["name"]]) \ Range(cases(i)) # {})}

\* The manifest enums in the spec whose implementation enum is not found.
UnfoundEnums(manifest, schema, sources) ==
    LET enums == Get(manifest, "enums", <<>>)
    IN {i \in DOMAIN enums :
          /\ Has(extract_enums(schema), enums[i]["name"])
          /\ extract_swift_enum_cases(sources, Get(enums[i], "swift", enums[i]["name"])) = <<>>}

\* C16: in a completed reconciliation a manifest enum that is in the spec
\* and whose implementation enum is found counts as one gap iff a spec case
\* value is absent from the implementation's case values, and as found
\* otherwise, whatever further cases the implementation has.
C16_EnumComparesCaseSets ==
    \A i \in 1..Len(runs) :
        IsCompletedVerify(runs[i])
        => /\ runs[i].results.enums_swift_found
              = Cardinality(ComparedEnums(runs[i].before, repo.schema, sdk, FALSE))
           /\ runs[i].results.enums_swift_missing
              = Cardinality(ComparedEnums(runs[i].before, repo.schema, sdk, TRUE))
                + Cardinality(UnfoundEnums(runs[i].before, repo.schema, sdk))

\* C16 witness: the implementation's Role has the case assistant, which
\* the spec's Role has not, and the reconciliation counted Role as found.
C16_Witness ==
    \E i \in 1..Len(runs) :
        /\ IsCompletedVerify(runs[i])
        /\ Range(extract_swift_enum_cases(sdk, "Role")) \ Range(extract_enums(repo.schema)["Role"]) # {}
        /\ ComparedEnums(runs[i].before, repo.schema, sdk, FALSE) # {}
        /\ runs[i].results.enums_swift_found = 1
        /\ runs[i].results.enums_swift_missing = 0

\* C17: a reconciliation run aborts on a failed clone only when no cached
\* copy exists: the run that has just ended with the clone's RuntimeError
\* leaves no cache behind (a failed clone creates none, so there was none
\* for it to fall back on).
C17_CloneFailureFallsBackToCache ==
    Len(runs) > 0
    => LET r == runs[Len(runs)]
       IN r.cmd = "verify" /\ r.raised = "RuntimeError" => ~cache

\* C18: building the implementation index never ends a run: whatever the
\* extractor does, a reconciliation run goes on to validate the files and a
\* synchronizer run with a schema goes on to load the schema facts.
C18_IndexExtractionNeverAborts ==
    \A i \in 1..Len(runs) :
        /\ runs[i].cmd = "verify" => FileSection \in Range(runs[i].printed)
        /\ runs[i].cmd = "sync" /\ runs[i].loaded => IsLoadedSync(runs[i])

\* C19: the method and notification maps a synchronizer run loads from a
\* schema are the same under every order in which the union-member sets can
\* be iterated.
C19_ExtractionOrderIndependent ==
    \A i \in 1..Len(runs) :
        IsLoadedSync(runs[i])
        => /\ \A order \in IterationOrders(RequestTypes(repo.schema)) :
                 runs[i].spec_methods = load_spec_methods(repo.schema, order)
           /\ \A order \in IterationOrders(NotificationTypes(repo.schema)) :
                 runs[i].spec_notifications = load_spec_notifications(repo.schema, order)

\* x with its first character in upper case.
Capitalised(x) == IF x = "" THEN x ELSE Upper(Char(x, 1)) \o Drop(x, 1)

\* The category without its plural s.
Singular(category) ==
    IF EndsWith(category, "s") THEN SubSeq(category, 1, Len(category) - 1) ELSE category

\* The name the derivation rule gives category/action.
PatternName(category, action) ==
    CASE action = "list" -> "list" \o Capitalised(category)
      [] action = "subscribe" -> "subscribeTo" \o Capitalised(Singular(category))
      [] action = "unsubscribe" -> "unsubscribeFrom" \o Capitalised(Singular(category))
      [] OTHER -> action \o Capitalised(Singular(category))

\* Whether the name is category/action: exactly one "/".
TwoSegments(method) == Cardinality({i \in 1..Len(method) : Char(method, i) = "/"}) = 1

\* C20: the Swift method name a synchronizer run derives for a method of
\* the exception table is the table's, and for any other two-segment
\* category/action name it is list{Category} for list, subscribeTo{Singular}
\* for subscribe, unsubscribeFrom{Singular} for unsubscribe and
\* {action}{Singular} for get, read, call and every other action.
C20_MethodNameTableThenPattern ==
    \A i \in 1..Len(runs) :
        IsLoadedSync(runs[i])
        => \A method \in DOMAIN runs[i].spec_methods :
              LET slash == Find(method, "/")
                  name  == runs[i].spec_methods[method]["swift_method"]
              IN IF Has(SWIFT_METHOD_MAPPINGS, method) THEN name = SWIFT_METHOD_MAPPINGS[method]
                 ELSE TwoSegments(method)
                      => name = PatternName(SubSeq(method, 1, slash - 1), Drop(method, slash))

\* C20 witness: a run derived subscribeToResource for resources/subscribe by
\* the pattern and listRoots for roots/list from the table.
C20_Witness ==
    \E i \in 1..Len(runs) :
        /\ IsLoadedSync(runs[i])
        /\ Has(runs[i].spec_methods, "resources/subscribe")
        /\ runs[i].spec_methods["resources/subscribe"]["swift_method"] = "subscribeToResource"
        /\ runs[i].spec_methods["roots/list"]["swift_method"] = "listRoots"

\* C21: for every method of the exception table that a synchronizer run
\* names, the name it takes from the table differs from the one the
\* structural rule gives that method.
C21_TableEntriesNotDerivable ==
    \A i \in 1..Len(runs) :
        IsLoadedSync(runs[i])
        => \A method \in DOMAIN runs[i].spec_methods \cap DOMAIN SWIFT_METHOD_MAPPINGS :
              /\ runs[i].spec_methods[method]["swift_method"] = SWIFT_METHOD_MAPPINGS[method]
              /\ StructuralMethodName(method) # SWIFT_METHOD_MAPPINGS[method]

\* C22: name derivation never raises: a synchronizer run that found its
\* schema derives the names of every method and notification and ends
\* without an exception.
C22_NameDerivationTotal ==
    \A i \in 1..Len(runs) :
        runs[i].cmd = "sync" /\ runs[i].loaded => runs[i].raised = None

\* C23: a type entry that an apply-mode synchronizer run adds for a spec
\* type whose own name is a symbol of the index names that symbol.
C23_ExactNameFirst ==
    \A i \in 1..Len(runs) :
        IsApplySync(runs[i])
        => LET old == TypesOf(runs[i].before)
               new == TypesOf(runs[i].doc)
           IN \A t \in ((DOMAIN new) \ (DOMAIN old)) \cap Range(extract_swift_types(tool).order) :
                 new[t]["swift"] = t

\* The definitions whose description announces their removal.
Announced(schema) ==
    {name \in DOMAIN SchemaDefs(schema) :
        LET desc == LowerStr(Get(SchemaDefs(schema)[name], "description", ""))
        IN Contains(desc, "deprecated") \/ Contains(desc, "will be removed")}

\* C24: in what a synchronizer run extracts, every definition whose
\* description contains deprecated or will be removed (in any case) is in
\* the deprecated map and not in the type set, no name with a method suffix
\* is in the type set, and the two are disjoint.
C24_DeprecatedAndSuffixedExcluded ==
    \A i \in 1..Len(runs) :
        IsLoadedSync(runs[i])
        => /\ \A name \in Announced(repo.schema) :
                 name \notin runs[i].spec_types /\ name \in DOMAIN runs[i].spec_deprecated
           /\ \A name \in runs[i].spec_types :
                 \A suffix \in {"Request", "RequestParams", "Response", "Result",
                                 "Notification", "NotificationParams"} : ~EndsWith(name, suffix)
           /\ runs[i].spec_types \cap DOMAIN runs[i].spec_deprecated = {}

\* C24 witness: a run extracted a schema with a type that Will Be Removed,
\* a DEPRECATED request and a result type: the first two are in the
\* deprecated map, none of the three is in the type set.
C24_Witness ==
    \E i \in 1..Len(runs) :
        /\ IsLoadedSync(runs[i])
        /\ {"LegacyThing", "OldRequest", "OldThing"} \subseteq DOMAIN runs[i].spec_deprecated
        /\ "FooResult" \in DOMAIN SchemaDefs(repo.schema)
        /\ runs[i].spec_types \cap {"LegacyThing", "OldRequest", "FooResult"} = {}
        /\ "Foo" \in runs[i].spec_types

\* Whether `content` declares, outside its comments, a function `name`
\* whose declaration is not marked private or fileprivate.
OpenlyDeclared(name, content) ==
    LET text == StripBlockComments(StripLineComments(content))
    IN \E i \in 1..Len(text) :
         /\ i = 1 \/ ~IsWordChar(Char(text, i - 1))
         /\ MatchFuncDecl(Drop(text, i - 1), name)
         /\ ~EndsWith(RStrip(SubSeq(text, 1, i - 1), SpaceChars), "private")

\* The client-side functions the methods of a manifest name.
ClientFunctions(manifest) ==
    LET methods == EntriesFrom(ModulesOf(manifest), "methods")
    IN {Get(methods[i], field, "") :
            i \in DOMAIN methods, field \in {"client_method", "client_handler"}} \ {""}

\* C25: a client function of the manifest a verifier run checked, which
\* method_exists reports as present in Client.swift, is declared there
\* outside comments and is not marked private or fileprivate.
C25_PrivateAndCommentedExcluded ==
    \A i \in 1..Len(runs) :
        IsCompletedVerify(runs[i])
        => \A name \in ClientFunctions(runs[i].before) :
              method_exists(name, ReadText(sdk, ClientSwift))
              => OpenlyDeclared(name, ReadText(sdk, ClientSwift))

MissingUnflaggedFiles(manifest, files) ==
    LET modules == ModulesOf(manifest)
        types   == TypesOf(manifest)
    IN ({Get(modules[k], "swift_file", None) : k \in {m \in DOMAIN modules : ~IsTodo(modules[m])}}
        \cup {Get(types[t], "file", None) :
                t \in {u \in DOMAIN types : /\ ~IsTodo(types[u])
                                             /\ EndsWith(Get(types[u], "file", None), ".swift")}})
       \ (DOMAIN files \cup {None})

\* C27: the file errors of a verifier run that validated the manifest's
\* files are the missing paths a module or type that is not flagged
\* not-yet-implemented names, each counted once, whatever else names them.
C27_FileValidationOrderIndependent ==
    \A i \in 1..Len(runs) :
        runs[i].cmd = "verify" /\ FileSection \in Range(runs[i].printed)
        => runs[i].results.file_errors = Cardinality(MissingUnflaggedFiles(runs[i].before, sdk))

\* The number of spec facts of each category that a manifest does not
\* name: types by entry name or spec_name, the others by name or property.
AbsentFacts(manifest, schema, schema_ts) ==
    LET types   == TypesOf(manifest)
        modules == ModulesOf(manifest)
        caps    == Get(manifest, "capabilities", <<>>)
        spec    == extract_methods_and_notifications(schema)
        Absent(facts, named) == Cardinality(facts \ named)
    IN [types  |-> Absent(extract_types(schema),
                          DOMAIN types \cup {Get(types[t], "spec_name", t) : t \in DOMAIN types}),
        methods |-> Absent(spec[1], NamesIn(EntriesFrom(modules, "methods"))),
        notifs  |-> Absent(spec[2], NamesIn(EntriesFrom(modules, "notifications"))),
        caps    |-> Absent(DOMAIN extract_capabilities(schema, "ClientCapabilities"),
                           PropertiesIn(Get(caps, "client", <<>>)))
                    + Absent(DOMAIN extract_capabilities(schema, "ServerCapabilities"),
                             PropertiesIn(Get(caps, "server", <<>>))),
        enums   |-> Absent(DOMAIN extract_enums(schema), NamesIn(Get(manifest, "enums", <<>>))),
        errors  |-> Absent(DOMAIN extract_error_codes(schema_ts),
                           NamesIn(Get(manifest, "error_codes", <<>>)))]

\* C28: in the results of every verifier run that reached its summary, the
\* Spec->Manifest gap count of each category is the number of spec facts of
\* that category the manifest does not name.
C28_GapCountsOnEveryPath ==
    \A i \in 1..Len(runs) :
        IsCompletedVerify(runs[i])
        => LET gaps == AbsentFacts(runs[i].before, repo.schema, repo.schema_ts)
               res  == runs[i].results
           IN /\ res.types_spec_manifest = gaps.types
              /\ res.methods_spec_manifest = gaps.methods
              /\ res.notifs_spec_manifest = gaps.notifs
              /\ res.caps_spec_manifest = gaps.caps
              /\ res.enums_spec_manifest = gaps.enums
              /\ res.errors_spec_manifest = gaps.errors

\* No value occurs twice in a sequence.
NoRepeat(seq) == \A a \in DOMAIN seq, b \in DOMAIN seq : seq[a] = seq[b] => a = b

\* Module ids are unique, and no method name and no notification name
\* occurs twice in the modules of a manifest.
UniquelyNamed(manifest) ==
    LET modules == ModulesOf(manifest)
        NameOf(entries) == [k \in DOMAIN entries |-> Get(entries[k], "name", None)]
    IN /\ NoRepeat([k \in DOMAIN modules |-> Get(modules[k], "id", None)])
       /\ NoRepeat(NameOf(EntriesFrom(modules, "methods")))
       /\ NoRepeat(NameOf(EntriesFrom(modules, "notifications")))

\* C29: an apply-mode synchronizer run that starts from a manifest with
\* unique module ids, method names and notification names leaves one with
\* unique module ids, method names and notification names.
C29_SyncPreservesUniqueness ==
    \A i \in 1..Len(runs) :
        IsApplySync(runs[i]) /\ UniquelyNamed(runs[i].before) => UniquelyNamed(runs[i].doc)

\* C29 witness: from a uniquely named manifest without a resources module,
\* an apply-mode run added two methods and a notification of that module,
\* which the result has once, with the three entries in it.
C29_Witness ==
    \E i \in 1..Len(runs) :
        /\ IsApplySync(runs[i]) /\ UniquelyNamed(runs[i].before)
        /\ FindModule(runs[i].before, "resources") = 0
        /\ LET modules == ModulesOf(runs[i].doc)
               k == FindModule(runs[i].doc, "resources")
           IN /\ k # 0
              /\ Len(modules) = Len(ModulesOf(runs[i].before)) + 1
              /\ Len(modules[k]["methods"]) = 2
              /\ Len(modules[k]["notifications"]) = 1

\* C30: after every process that runs the reconciliation, a temporary
\* directory it made no longer exists, however the process ended; and with
\* --skip-clone and an existing cache it made no temporary directory and
\* did not write the cache.
C30_TempDirLifecycle ==
    \A i \in 1..Len(runs) :
        runs[i].cmd \in {"verify", "reset"}
        => /\ runs[i].temp_made => ~runs[i].temp_exists
           /\ runs[i].skip_clone /\ runs[i].cache_before
              => ~runs[i].temp_made /\ ~runs[i].cache_written

\* C30 witness: a runner that cloned into a temporary directory and ended
\* with exit 0 left no directory behind, and the runner after it, with
\* --skip-clone, used the cache the first one wrote.
C30_Witness ==
    /\ Len(runs) = 2
    /\ runs[1].cmd = "verify" /\ runs[1].temp_made /\ ~runs[1].temp_exists
    /\ runs[1].cache_written /\ runs[1].exit = 0 /\ runs[1].raised = None
    /\ runs[2].cmd = "verify" /\ runs[2].skip_clone /\ runs[2].cache_before
    /\ IsCompletedVerify(runs[2]) /\ ~runs[2].temp_made /\ ~runs[2].cache_written

====
